---- MODULE Spec2Model ----
(***************************************************************************)
(* Hybrid two-stage flow-shop scheduling engine of bvl-seminare:           *)
(*   - the discrete-event simulator (simulationCore.ts: initializeState,   *)
(*     tryAssignStage1Jobs, tryAssignStage2Jobs, processEvent,             *)
(*     runSimulation) with its PriorityQueue,                              *)
(*   - the genetic optimizer and its Web Worker message handler            *)
(*     (gaWorker.ts).                                                      *)
(* Times are minutes (integers).  null is modelled by 0: machine ids,      *)
(* job ids and families are positive.                                      *)
(***************************************************************************)
EXTENDS Integers, Sequences, FiniteSets, TLC

VARIABLES
  pc,           \* position inside runSimulation: "idle", "assign1", "loop", "done"
  jobs,         \* argument jobs: Job[]
  jobSequence,  \* argument jobSequence: number[]
  state,        \* SimulationState of the running call
  eventQueue,   \* PriorityQueue.items of the running call
  iterations,   \* loop counter of runSimulation
  schedule,     \* the Schedule returned by the last completed call
  remembered,   \* an earlier completed call [jobs, jobSequence, schedule, later] or
                \* <<>>; later: a call with other arguments has returned since
  inbox,        \* messages posted to the GA worker and not yet handled
  posted,       \* what the page has posted so far: [start, cancel, duringRun];
                \* duringRun: the CANCEL was posted while runGA was running
                \* and had a generation still to start
  outbox,       \* responses the GA worker has posted (self.postMessage)
  cancelRequested,  \* the module-level flag of gaWorker.ts
  wpc,          \* position of the worker: "idle", "generation", "offspring"
  run,          \* arguments of the running runGA: [jobs, config, hasInitial, initialSequence]
  population,   \* runGA: population
  newPopulation,\* runGA: newPopulation
  bestEver,     \* runGA: bestEver
  fitnessHistory, \* runGA: fitnessHistory
  generation,   \* runGA: loop counter
  adaptedMutationRate, \* runGA: the mutation rate of the current generation, a
                \* quotient <<numerator, denominator>>
  queueItems,   \* PriorityQueue.items of a queue used on its own
  popped,       \* the last pop() of that queue: [called, value], value = <<>> for
                \* undefined, <<event>> for an event
  call,         \* the last call of a genetic operator on its own: [operator, args,
                \* argsAfter, returned, turns]; argsAfter: the argument arrays
                \* when the call has returned
  workerRef,    \* the page: workerRef.current, 0 for null, else the number of
                \* the Worker in order of construction
  workers,      \* every Worker the page constructed: [status, inbox, port,
                \* generation]; port: its messages not yet handed to the page
  isOptimizing, \* the page's isOptimizing
  optimizationProgress,  \* the page's optimizationProgress: <<>> for null, else
                \* <<[generation, total]>>
  pageJobSequence,       \* the page's jobSequence
  pageError     \* the page's error: <<>> for null, else <<message>>

simVars == <<pc, jobs, jobSequence, state, eventQueue, iterations, schedule, remembered>>

gaVars == <<inbox, posted, outbox, cancelRequested, wpc, run, population, newPopulation,
            bestEver, fitnessHistory, generation, adaptedMutationRate>>

queueVars == <<queueItems, popped>>

opVars == <<call>>

pageVars == <<workerRef, workers, isOptimizing, optimizationProgress, pageJobSequence,
              pageError>>

vars == <<simVars, gaVars, queueVars, opVars, pageVars>>

----------------------------------------------------------------------------
(* Program constants *)

null == 0
SETUP_TIME_SMD_MINOR == 20
SETUP_TIME_SMD_MAJOR == 65
SETUP_TIME_AOI == 25
STAGE1_MACHINES == 4
STAGE2_MACHINES == 5
maxIterations == 10000

----------------------------------------------------------------------------
(* Bounds of the model and the inputs they span *)

MaxJobs == 3      \* length of the enumerated job lists
MaxFamily == 2    \* families of the enumerated job lists

\* (t_smd, t_aoi, dueDate) of the enumerated jobs: positive durations, dueDate >= 0
\* A single job of the second profile ends stage 2 exactly at its due date
\* (65 + 45 + 25 + 5 = 140); a job of the first profile is always late.
Profiles ==
  { [t_smd |-> 10, t_aoi |-> 30, dueDate |-> 100],
    [t_smd |-> 45, t_aoi |-> 5,  dueDate |-> 140] }

MkJob(i, f, p) ==
  [id |-> i, dueDate |-> p.dueDate, family |-> f, t_smd |-> p.t_smd, t_aoi |-> p.t_aoi]

\* The code only compares families for equality, so of the job lists that
\* differ by a renaming of the families one is enumerated: the one in which
\* the families appear in ascending order of first use (1, then 2, ...).
FamiliesInOrderOfUse(fp) ==
  \A i \in DOMAIN fp : \A f \in 1..(fp[i][1] - 1) : \E k \in 1..(i - 1) : fp[k][1] = f

\* all job lists of length n with ids 1..n (ids unique, as the interface requires)
JobListsOfLen(n, profiles) ==
  { [i \in 1..n |-> MkJob(i, fp[i][1], fp[i][2])] :
      fp \in { g \in [1..n -> (1..MaxFamily) \X profiles] : FamiliesInOrderOfUse(g) } }

GeneralJobLists == UNION { JobListsOfLen(n, Profiles) : n \in 0..MaxJobs }

\* Six jobs of five families with long inspection times: more families than
\* stage-1 machines (a machine changes family) and more jobs than stage-2
\* machines (a job waits for a stage-2 machine).
SixJobs ==
  << [id |-> 1, dueDate |-> 300, family |-> 1, t_smd |-> 10, t_aoi |-> 200],
     [id |-> 2, dueDate |-> 300, family |-> 2, t_smd |-> 10, t_aoi |-> 200],
     [id |-> 3, dueDate |-> 300, family |-> 3, t_smd |-> 20, t_aoi |-> 200],
     [id |-> 4, dueDate |-> 400, family |-> 4, t_smd |-> 10, t_aoi |-> 200],
     [id |-> 5, dueDate |-> 400, family |-> 5, t_smd |-> 10, t_aoi |-> 200],
     [id |-> 6, dueDate |-> 600, family |-> 1, t_smd |-> 10, t_aoi |-> 200] >>

JobLists == GeneralJobLists \cup {SixJobs}

Range(s) == { s[i] : i \in DOMAIN s }

\* the sequences that are permutations of the finite set S
PermSeqs(S) ==
  { s \in [1..Cardinality(S) -> S] : Range(s) = S }

JobIds(js) == { js[i].id : i \in DOMAIN js }

----------------------------------------------------------------------------
(* PriorityQueue.ts *)

\* Array.prototype.sort with (a, b) => a.time - b.time is stable: insertion of
\* x behind every element whose time is not greater.
RECURSIVE SortByTime(_)
InsertByTime(sorted, x) ==
  LET before == { i \in DOMAIN sorted : sorted[i].time <= x.time }
      k == IF before = {} THEN 0
           ELSE CHOOSE i \in before : \A j \in before : j <= i
  IN  \* the sorted prefix up to the last element not later than x
      SubSeq(sorted, 1, k) \o <<x>> \o SubSeq(sorted, k + 1, Len(sorted))

SortByTime(items) ==
  IF items = <<>> THEN <<>>
  ELSE InsertByTime(SortByTime(SubSeq(items, 1, Len(items) - 1)), items[Len(items)])

pushUnsorted(items, item) == Append(items, item)

pushInFront(items, item) == <<item>> \o items

\* this.items.push(item); this.items.sort((a, b) => a.time - b.time)
push(items, item) == SortByTime(Append(items, item))

isEmpty(items) == Len(items) = 0

----------------------------------------------------------------------------
(* simulationCore.ts *)

Max2(a, b) == IF a >= b THEN a ELSE b
Max3(a, b, c) == Max2(a, Max2(b, c))

\* the four stage-1 and five stage-2 machines that initializeState builds
NewMachines ==
  [i \in 1..(STAGE1_MACHINES + STAGE2_MACHINES) |->
     [ id |-> i,
       stage |-> IF i <= STAGE1_MACHINES THEN 1 ELSE 2,
       currentSetupKit |-> null,
       availableAt |-> 0,
       currentJob |-> null ]]

initializeStateKeepMachines(js, seq) ==
  [ currentTime |-> 0,
    machines |-> state.machines,
    setupKits |->
      [f \in { js[i].family : i \in DOMAIN js } |->
         [family |-> f, currentMachine |-> null, inTransit |-> FALSE, availableAt |-> 0]],
    stage1Queue |-> seq,
    stage2Queue |-> <<>>,
    completedJobs |-> <<>> ]

initializeState(js, seq) ==
  [ currentTime |-> 0,
    machines |-> NewMachines,
    setupKits |->
      [f \in { js[i].family : i \in DOMAIN js } |->
         [family |-> f, currentMachine |-> null, inTransit |-> FALSE, availableAt |-> 0]],
    stage1Queue |-> seq,
    stage2Queue |-> <<>>,
    completedJobs |-> <<>> ]

\* jobsMap = new Map(jobs.map(j => [j.id, j])): the last job of an id wins
HasJob(js, id) == \E i \in DOMAIN js : js[i].id = id
GetJob(js, id) ==
  js[CHOOSE i \in DOMAIN js : js[i].id = id /\ \A k \in DOMAIN js : js[k].id = id => k <= i]

\* machines.find(m => m.id === id): index of the first machine of that id, or 0
FindMachine(st, id) ==
  LET hit == { i \in DOMAIN st.machines : st.machines[i].id = id }
  IN IF hit = {} THEN 0 ELSE CHOOSE i \in hit : \A j \in hit : i <= j

Stage1SetupAlwaysMajor(machine, kit, job) ==
  IF kit.currentMachine # null /\ kit.currentMachine # machine.id
    THEN [feasible |-> FALSE, setupTime |-> SETUP_TIME_SMD_MAJOR]
    ELSE [feasible |-> TRUE, setupTime |-> SETUP_TIME_SMD_MAJOR]

Stage1SetupKitMayMove(machine, kit, job) ==
  IF machine.currentSetupKit = job.family
    THEN [feasible |-> TRUE, setupTime |-> SETUP_TIME_SMD_MINOR]
    ELSE [feasible |-> TRUE, setupTime |-> SETUP_TIME_SMD_MAJOR]

Stage1SetupKitMustBeMounted(machine, kit, job) ==
  IF machine.currentSetupKit = job.family
    THEN [feasible |-> TRUE, setupTime |-> SETUP_TIME_SMD_MINOR]
  ELSE IF kit.currentMachine # null
    THEN [feasible |-> FALSE, setupTime |-> SETUP_TIME_SMD_MAJOR]
  ELSE [feasible |-> TRUE, setupTime |-> SETUP_TIME_SMD_MAJOR]

\* The three-way branch of the machine loop of tryAssignStage1Jobs.
\* feasible = FALSE is the "continue" of the kit-busy-elsewhere branch.
Stage1Setup(machine, kit, job) ==
  IF machine.currentSetupKit = job.family
    THEN [feasible |-> TRUE, setupTime |-> SETUP_TIME_SMD_MINOR]
  ELSE IF kit.currentMachine # null /\ kit.currentMachine # machine.id
    THEN [feasible |-> FALSE, setupTime |-> SETUP_TIME_SMD_MAJOR]
  ELSE [feasible |-> TRUE, setupTime |-> SETUP_TIME_SMD_MAJOR]

RECURSIVE BestStage1MachineLastWins(_, _, _, _, _)
BestStage1MachineLastWins(st, kit, job, i, best) ==
  IF i > Len(st.machines) THEN best
  ELSE IF st.machines[i].stage # 1 THEN BestStage1MachineLastWins(st, kit, job, i + 1, best)
  ELSE
    LET machine == st.machines[i]
        s == Stage1Setup(machine, kit, job)
        jobStartTime ==
          Max3(st.currentTime, machine.availableAt, kit.availableAt) + s.setupTime
    IN IF s.feasible /\ (best.machine = 0 \/ jobStartTime <= best.startTime)
         THEN BestStage1MachineLastWins(st, kit, job, i + 1,
                [machine |-> i, startTime |-> jobStartTime,
                 setupRequired |-> TRUE, setupTime |-> s.setupTime])
         ELSE BestStage1MachineLastWins(st, kit, job, i + 1, best)

\* The machine loop: machines i..STAGE1 in array order, best so far in `best`
\* (best.machine = 0 stands for bestMachine = null, bestStartTime = Infinity).
RECURSIVE BestStage1Machine(_, _, _, _, _)
BestStage1Machine(st, kit, job, i, best) ==
  IF i > Len(st.machines) THEN best
  ELSE IF st.machines[i].stage # 1 THEN BestStage1Machine(st, kit, job, i + 1, best)
  ELSE
    LET machine == st.machines[i]
        s == Stage1Setup(machine, kit, job)
        setupStartTime == Max3(st.currentTime, machine.availableAt, kit.availableAt)
        jobStartTime == setupStartTime + s.setupTime
    IN IF s.feasible /\ (best.machine = 0 \/ jobStartTime < best.startTime)
         THEN BestStage1Machine(st, kit, job, i + 1,
                [machine |-> i, startTime |-> jobStartTime,
                 setupRequired |-> TRUE, setupTime |-> s.setupTime])
         ELSE BestStage1Machine(st, kit, job, i + 1, best)

NoBest == [machine |-> 0, startTime |-> 0, setupRequired |-> FALSE, setupTime |-> 0]

SetupTypeOf(setupRequired, setupTime) ==
  IF setupRequired
    THEN (IF setupTime = SETUP_TIME_SMD_MAJOR THEN "major" ELSE "minor")
    ELSE "none"

\* "If kit is on another machine, remove it from there first"
RemoveKitFromOldMachine(st, machines, kit, bestMachine) ==
  LET old == IF kit.currentMachine # null /\ kit.currentMachine # bestMachine.id
               THEN FindMachine(st, kit.currentMachine) ELSE 0
  IN IF old # 0 THEN [machines EXCEPT ![old].currentSetupKit = null] ELSE machines

InstallKitForgotten(kits, family, machineId, jobEndTime) == kits

\* "Install kit on this machine": the kit side of the binding
InstallKit(kits, family, machineId, jobEndTime) ==
  [kits EXCEPT ![family].currentMachine = machineId,
               ![family].availableAt = jobEndTime]

\* "Assign job to best machine" of tryAssignStage1Jobs, for the machine the
\* machine loop chose (best.machine is its index in state.machines).
AssignStage1To(st, eq, jobId, job, kit, best) ==
  LET bestMachine == st.machines[best.machine]
      setupStartTime ==
        IF best.setupRequired
          THEN Max3(st.currentTime, bestMachine.availableAt, kit.availableAt)
          ELSE Max2(st.currentTime, bestMachine.availableAt)
      jobStartTime ==
        IF best.setupRequired THEN setupStartTime + best.setupTime ELSE setupStartTime
      jobEndTime == jobStartTime + job.t_smd
      machines1 ==
        [st.machines EXCEPT ![best.machine].currentJob = jobId,
                            ![best.machine].availableAt = jobEndTime]
      machines2 == RemoveKitFromOldMachine(st, machines1, kit, bestMachine)
      machines3 == [machines2 EXCEPT ![best.machine].currentSetupKit = job.family]
      kits == InstallKit(st.setupKits, job.family, bestMachine.id, jobEndTime)
      ev == [type |-> "STAGE1_COMPLETE", time |-> jobEndTime, jobId |-> jobId,
             machineId |-> bestMachine.id, stage |-> 1]
      sj == [jobId |-> jobId, machineId |-> bestMachine.id, stage |-> 1,
             startTime |-> jobStartTime, endTime |-> jobEndTime,
             setupTime |-> IF best.setupRequired THEN best.setupTime ELSE 0,
             setupType |-> SetupTypeOf(best.setupRequired, best.setupTime),
             setupStartTime |-> IF best.setupRequired THEN setupStartTime ELSE null,
             processingTime |-> job.t_smd, family |-> job.family,
             isLate |-> FALSE, tardiness |-> 0]
  IN IF best.machine = 0
       THEN [assigned |-> FALSE, state |-> st, eventQueue |-> eq]
       ELSE [assigned |-> TRUE,
             state |-> [st EXCEPT !.stage1Queue = Tail(st.stage1Queue),
                                  !.machines = machines3,
                                  !.setupKits = kits,
                                  !.completedJobs = Append(st.completedJobs, sj)],
             eventQueue |-> push(eq, ev)]

\* One iteration of the while loop of tryAssignStage1Jobs on a non-empty
\* stage-1 queue.  Result: [assigned, state, eventQueue].
AssignStage1Head(js, st, eq) ==
  LET jobId == st.stage1Queue[1]
      unassigned == [assigned |-> FALSE, state |-> st, eventQueue |-> eq]
  IN
  IF ~HasJob(js, jobId) THEN unassigned
  ELSE IF GetJob(js, jobId).family \notin DOMAIN st.setupKits THEN unassigned
  ELSE AssignStage1To(st, eq, jobId, GetJob(js, jobId),
         st.setupKits[GetJob(js, jobId).family],
         BestStage1Machine(st, st.setupKits[GetJob(js, jobId).family],
                           GetJob(js, jobId), 1, NoBest))

\* tryAssignStage1Jobs: while (assigned && state.stage1Queue.length > 0)
RECURSIVE tryAssignStage1Jobs(_, _, _)
tryAssignStage1Jobs(js, st, eq) ==
  IF Len(st.stage1Queue) = 0 THEN [state |-> st, eventQueue |-> eq]
  ELSE LET r == AssignStage1Head(js, st, eq)
       IN IF r.assigned THEN tryAssignStage1Jobs(js, r.state, r.eventQueue)
          ELSE [state |-> st, eventQueue |-> eq]

RECURSIVE BestStage2MachineLastWins(_, _, _)
BestStage2MachineLastWins(st, i, best) ==
  IF i > Len(st.machines) THEN best
  ELSE IF st.machines[i].stage # 2 THEN BestStage2MachineLastWins(st, i + 1, best)
  ELSE IF best = 0 \/ st.machines[i].availableAt <= st.machines[best].availableAt
    THEN BestStage2MachineLastWins(st, i + 1, i)
  ELSE BestStage2MachineLastWins(st, i + 1, best)

\* stage2Machines.reduce((best, current) =>
\*   current.availableAt < best.availableAt ? current : best)
RECURSIVE BestStage2Machine(_, _, _)
BestStage2Machine(st, i, best) ==
  IF i > Len(st.machines) THEN best
  ELSE IF st.machines[i].stage # 2 THEN BestStage2Machine(st, i + 1, best)
  ELSE IF best = 0 \/ st.machines[i].availableAt < st.machines[best].availableAt
    THEN BestStage2Machine(st, i + 1, i)
  ELSE BestStage2Machine(st, i + 1, best)

\* completedJobs.find(sj => sj.jobId === jobId && sj.stage === 1): index or 0
FindStage1Job(st, jobId) ==
  LET hit == { i \in DOMAIN st.completedJobs :
                 st.completedJobs[i].jobId = jobId /\ st.completedJobs[i].stage = 1 }
  IN IF hit = {} THEN 0 ELSE CHOOSE i \in hit : \A j \in hit : i <= j

Stage2SetupStartMachineOnly(stage1Job, bestMachine, st) == bestMachine.availableAt

Stage2SetupStartIgnoresMachine(stage1Job, bestMachine, st) ==
  Max2(stage1Job.endTime, st.currentTime)

\* "AOI ALWAYS requires 25 min setup": when that setup starts
Stage2SetupStart(stage1Job, bestMachine, st) ==
  Max3(stage1Job.endTime, bestMachine.availableAt, st.currentTime)

TardinessSigned(jobEndTime, job) == jobEndTime - job.dueDate

Tardiness(jobEndTime, job) == Max2(0, jobEndTime - job.dueDate)

\* The body of the while loop of tryAssignStage2Jobs for the machine the
\* reduce chose (index b) and the job's stage-1 record (index s1, 0 if none).
AssignStage2To(st, eq, jobId, job, b, s1) ==
  LET bestMachine == st.machines[b]
      stage1Job == st.completedJobs[s1]
      setupStartTime == Stage2SetupStart(stage1Job, bestMachine, st)
      jobStartTime == setupStartTime + SETUP_TIME_AOI
      jobEndTime == jobStartTime + job.t_aoi
      ev == [type |-> "SIMULATION_END", time |-> jobEndTime, jobId |-> jobId,
             machineId |-> bestMachine.id, stage |-> 2]
      tardiness == Tardiness(jobEndTime, job)
      sj == [jobId |-> jobId, machineId |-> bestMachine.id, stage |-> 2,
             startTime |-> jobStartTime, endTime |-> jobEndTime,
             setupTime |-> SETUP_TIME_AOI, setupType |-> "aoi",
             setupStartTime |-> setupStartTime,
             processingTime |-> job.t_aoi, family |-> job.family,
             isLate |-> (tardiness > 0), tardiness |-> tardiness]
  IN IF s1 = 0
       THEN [assigned |-> FALSE, state |-> st, eventQueue |-> eq]
       ELSE [assigned |-> TRUE,
             state |-> [st EXCEPT !.stage2Queue = Tail(st.stage2Queue),
                                  !.machines[b].currentJob = jobId,
                                  !.machines[b].availableAt = jobEndTime,
                                  !.completedJobs = Append(st.completedJobs, sj)],
             eventQueue |-> push(eq, ev)]

\* One iteration of the while loop of tryAssignStage2Jobs on a non-empty
\* stage-2 queue.  Result: [assigned, state, eventQueue].
AssignStage2Head(js, st, eq) ==
  IF ~HasJob(js, st.stage2Queue[1])
    THEN [assigned |-> FALSE, state |-> st, eventQueue |-> eq]
    ELSE AssignStage2To(st, eq, st.stage2Queue[1], GetJob(js, st.stage2Queue[1]),
                        BestStage2Machine(st, 1, 0), FindStage1Job(st, st.stage2Queue[1]))

\* tryAssignStage2Jobs: while (assigned && state.stage2Queue.length > 0)
RECURSIVE tryAssignStage2Jobs(_, _, _)
tryAssignStage2Jobs(js, st, eq) ==
  IF Len(st.stage2Queue) = 0 THEN [state |-> st, eventQueue |-> eq]
  ELSE LET r == AssignStage2Head(js, st, eq)
       IN IF r.assigned THEN tryAssignStage2Jobs(js, r.state, r.eventQueue)
          ELSE [state |-> st, eventQueue |-> eq]

processEventNoStage2(js, event, st, eq) ==
  LET st1 == [st EXCEPT !.currentTime = event.time]
      m == FindMachine(st1, event.machineId)
  IN [state |-> IF m # 0 THEN [st1 EXCEPT !.machines[m].currentJob = null] ELSE st1,
      eventQueue |-> eq]

\* processEvent(event, state, eventQueue); the other event types are never pushed
processEvent(js, event, st, eq) ==
  LET st1 == [st EXCEPT !.currentTime = event.time]
      m == FindMachine(st1, event.machineId)
      st2 == IF m # 0 THEN [st1 EXCEPT !.machines[m].currentJob = null] ELSE st1
  IN IF event.type = "STAGE1_COMPLETE"
       THEN tryAssignStage2Jobs(js,
              [st2 EXCEPT !.stage2Queue = Append(st2.stage2Queue, event.jobId)], eq)
     ELSE IF event.type = "SIMULATION_END"
       THEN [state |-> st2, eventQueue |-> eq]
     ELSE [state |-> st1, eventQueue |-> eq]

RECURSIVE SumSeq(_)
SumSeq(s) == IF s = <<>> THEN 0 ELSE s[1] + SumSeq(Tail(s))

RECURSIVE MaxSeq(_)
MaxSeq(s) == IF s = <<>> THEN 0 ELSE Max2(s[1], MaxSeq(Tail(s)))   \* Math.max(...s, 0)

FilterStageKeepsAll(cj, s) == cj

\* completedJobs.filter((sj) => sj.stage === s)
FilterStage(cj, s) == SelectSeq(cj, LAMBDA sj : sj.stage = s)

MakespanOfStage1(cj) ==
  LET s1 == FilterStage(cj, 1) IN MaxSeq([i \in DOMAIN s1 |-> s1[i].endTime])

\* Math.max(...state.completedJobs.map((sj) => sj.endTime), 0)
Makespan(cj) == MaxSeq([i \in DOMAIN cj |-> cj[i].endTime])

QuotientUnguarded(guard, num, den) == <<num, den>>

\* guard ? num / den : 0
Quotient(guard, num, den) == IF guard THEN <<num, den>> ELSE <<0, 1>>

\* "Build final schedule" of runSimulation.  A quotient a / b is kept as the
\* pair <<a, b>> (the guarded quotients are <<0, 1>> when the guard fails).
BuildSchedule(st) ==
  LET cj == st.completedJobs
      makespan == Makespan(cj)
      stage2Jobs == FilterStage(cj, 2)
      stage1Jobs == FilterStage(cj, 1)
      totalTardiness == SumSeq([i \in DOMAIN stage2Jobs |-> stage2Jobs[i].tardiness])
      stage1TotalProcessing ==
        SumSeq([i \in DOMAIN stage1Jobs |->
                  stage1Jobs[i].processingTime + stage1Jobs[i].setupTime])
      stage2TotalProcessing ==
        SumSeq([i \in DOMAIN stage2Jobs |->
                  stage2Jobs[i].processingTime + stage2Jobs[i].setupTime])
  IN [ jobs |-> cj,
       makespan |-> makespan,
       totalTardiness |-> totalTardiness,
       averageTardiness |->
         Quotient(Len(stage2Jobs) > 0, totalTardiness, Len(stage2Jobs)),
       setupCount |-> Len(SelectSeq(cj, LAMBDA sj : sj.setupTime > 0)),
       minorSetupCount |-> Len(SelectSeq(cj, LAMBDA sj : sj.setupType = "minor")),
       majorSetupCount |-> Len(SelectSeq(cj, LAMBDA sj : sj.setupType = "major")),
       aoiSetupCount |-> Len(SelectSeq(cj, LAMBDA sj : sj.setupType = "aoi")),
       utilization |->
         [ stage1 |-> Quotient(makespan > 0, stage1TotalProcessing,
                               makespan * STAGE1_MACHINES),
           stage2 |-> Quotient(makespan > 0, stage2TotalProcessing,
                               makespan * STAGE2_MACHINES) ] ]

\* The event loop of runSimulation from a given state on.
RECURSIVE EventLoop(_, _, _, _)
EventLoop(js, st, eq, iter) ==
  IF ~isEmpty(eq) /\ iter < maxIterations
    THEN LET p == processEvent(js, Head(eq), st, Tail(eq))
             a == tryAssignStage1Jobs(js, p.state, p.eventQueue)
         IN EventLoop(js, a.state, a.eventQueue, iter + 1)
    ELSE st

\* runSimulation(jobs, jobSequence) as a function of its arguments
runSimulation(js, seq) ==
  LET a == tryAssignStage1Jobs(js, initializeState(js, seq), <<>>)
  IN BuildSchedule(EventLoop(js, a.state, a.eventQueue, 0))

----------------------------------------------------------------------------
(* One call of runSimulation, step by step *)

NoSchedule == [jobs |-> <<>>, makespan |-> -1]

NoRun == [jobs |-> <<>>, config |-> <<>>, hasInitial |-> FALSE, initialSequence |-> <<>>]

NoIndividual == [chromosome |-> <<>>, fitness |-> 0, makespan |-> 0, totalTardiness |-> 0]

\* the worker module has been loaded: cancelRequested = false, no message yet
WorkerLoaded ==
  /\ inbox = <<>>
  /\ posted = [start |-> FALSE, cancel |-> FALSE, duringRun |-> FALSE]
  /\ outbox = <<>>
  /\ cancelRequested = FALSE
  /\ wpc = "idle"
  /\ run = NoRun
  /\ population = <<>>
  /\ newPopulation = <<>>
  /\ bestEver = NoIndividual
  /\ fitnessHistory = <<>>
  /\ generation = 0
  /\ adaptedMutationRate = <<0, 1>>

\* no pop() has been called yet
NoPop == [called |-> FALSE, value |-> <<>>]

\* no genetic operator has been called on its own yet
NoCall == [operator |-> "none", args |-> <<>>, argsAfter |-> <<>>, returned |-> <<>>,
           turns |-> 0]

\* before the first call: no queue, no kit, no record
NoCallYet ==
  [ currentTime |-> 0, machines |-> NewMachines, setupKits |-> <<>>,
    stage1Queue |-> <<>>, stage2Queue |-> <<>>, completedJobs |-> <<>> ]

\* runSimulation is entered: eventQueue = new PriorityQueue(), initializeState
Call(js, seq) ==
  /\ pc \in {"idle", "done"}
  /\ jobs' = js
  /\ jobSequence' = seq
  /\ state' = initializeState(js, seq)
  /\ eventQueue' = <<>>
  /\ iterations' = 0
  /\ pc' = "assign1"
  /\ schedule' = NoSchedule      \* this call has not returned yet
  /\ UNCHANGED <<remembered, gaVars, queueVars, opVars, pageVars>>

ArgumentSharedWithQueue(argument, queue) == queue

\* stage1Queue: [...jobSequence] is a copy of the argument: what the argument
\* array holds after state.stage1Queue.shift()
ArgumentAfterShift(argument, queue) == argument

\* one iteration of the loop of tryAssignStage1Jobs that assigns the queue head
Stage1Assign ==
  /\ pc = "assign1"
  /\ Len(state.stage1Queue) > 0
  /\ LET r == AssignStage1Head(jobs, state, eventQueue)
     IN /\ r.assigned
        /\ state' = r.state
        /\ eventQueue' = r.eventQueue
        /\ jobSequence' = ArgumentAfterShift(jobSequence, r.state.stage1Queue)
  /\ UNCHANGED <<pc, jobs, iterations, schedule, remembered, gaVars, queueVars, opVars, pageVars>>

\* tryAssignStage1Jobs returns: queue empty, or its head cannot be assigned
Stage1Return ==
  /\ pc = "assign1"
  /\ IF Len(state.stage1Queue) = 0 THEN TRUE
     ELSE ~AssignStage1Head(jobs, state, eventQueue).assigned
  /\ pc' = "loop"
  /\ UNCHANGED <<jobs, jobSequence, state, eventQueue, iterations, schedule, remembered, gaVars, queueVars, opVars, pageVars>>

\* one turn of the event loop: pop and processEvent
ProcessNextEvent ==
  /\ pc = "loop"
  /\ ~isEmpty(eventQueue) /\ iterations < maxIterations
  /\ iterations' = iterations + 1
  /\ LET p == processEvent(jobs, Head(eventQueue), state, Tail(eventQueue))
     IN /\ state' = p.state
        /\ eventQueue' = p.eventQueue
  /\ pc' = "assign1"
  /\ UNCHANGED <<jobs, jobSequence, schedule, remembered, gaVars, queueVars, opVars, pageVars>>

\* the loop ends and the Schedule is built and returned
Return ==
  /\ pc = "loop"
  /\ ~(~isEmpty(eventQueue) /\ iterations < maxIterations)
  /\ schedule' = BuildSchedule(state)
  /\ pc' = "done"
  /\ UNCHANGED <<jobs, jobSequence, state, eventQueue, iterations, remembered, gaVars, queueVars, opVars, pageVars>>

\* the page as mounted: no worker, nothing optimizing (the sequence is the
\* load order of the default jobs)
PageLoaded ==
  /\ workerRef = 0
  /\ workers = <<>>
  /\ isOptimizing = FALSE
  /\ optimizationProgress = <<>>
  /\ pageJobSequence = <<1, 2>>
  /\ pageError = <<>>

\* the state after construction: runSimulation not yet called, the worker
\* loaded, the page mounted
Init ==
  /\ pc = "idle"
  /\ jobs = <<>>
  /\ jobSequence = <<>>
  /\ state = NoCallYet
  /\ eventQueue = <<>>
  /\ iterations = 0
  /\ schedule = NoSchedule
  /\ remembered = <<>>
  /\ WorkerLoaded
  /\ queueItems = <<>>
  /\ popped = NoPop
  /\ call = NoCall
  /\ PageLoaded

CallAny ==
  /\ pc = "idle"
  /\ \E js \in JobLists : \E seq \in PermSeqs(JobIds(js)) : Call(js, seq)

Next ==
  \/ CallAny
  \/ Stage1Assign
  \/ Stage1Return
  \/ ProcessNextEvent
  \/ Return

Spec == Init /\ [][Next]_vars

----------------------------------------------------------------------------
(* Several calls of runSimulation, one after the other *)

RunFamilies == {1, 2}

RunJobLists ==
  UNION { { [i \in 1..n |-> MkJob(i, fam[i], [t_smd |-> 10, t_aoi |-> 30, dueDate |-> 100])] :
              fam \in [1..n -> RunFamilies] } : n \in 0..(MaxJobs - 1) }

CallAgain ==
  /\ pc \in {"idle", "done"}
  /\ \E js \in RunJobLists : \E seq \in PermSeqs(JobIds(js)) : Call(js, seq)

\* the caller keeps the result of the call that has just returned
Remember ==
  /\ pc = "done"
  /\ remembered = <<>>
  /\ remembered' = [jobs |-> jobs, jobSequence |-> jobSequence,
                    schedule |-> schedule, later |-> FALSE]
  /\ UNCHANGED <<pc, jobs, jobSequence, state, eventQueue, iterations, schedule, gaVars, queueVars, opVars, pageVars>>

\* a call with other arguments returns after the remembered one
ReturnLater ==
  /\ pc = "loop"
  /\ remembered # <<>>
  /\ ~remembered.later
  /\ <<remembered.jobs, remembered.jobSequence>> # <<jobs, jobSequence>>
  /\ ~(~isEmpty(eventQueue) /\ iterations < maxIterations)
  /\ schedule' = BuildSchedule(state)
  /\ pc' = "done"
  /\ remembered' = [remembered EXCEPT !.later = TRUE]
  /\ UNCHANGED <<jobs, jobSequence, state, eventQueue, iterations, gaVars, queueVars, opVars, pageVars>>

NextRuns ==
  \/ CallAgain
  \/ Stage1Assign
  \/ Stage1Return
  \/ ProcessNextEvent
  \/ Return
  \/ Remember
  \/ ReturnLater

SpecRuns == Init /\ [][NextRuns]_vars

----------------------------------------------------------------------------
(* runSimulation called with any sequence of numbers, permutation or not *)

\* every sequence of at most MaxJobs ids out of 1..MaxJobs: the job lists of
\* RunJobLists have fewer jobs, so some id is always the id of no job
AnySequences == UNION { [1..n -> 1..MaxJobs] : n \in 0..MaxJobs }

CallAnySequence ==
  /\ pc = "idle"
  /\ \E js \in RunJobLists : \E seq \in AnySequences : Call(js, seq)

NextAnySequence ==
  \/ CallAnySequence
  \/ Stage1Assign
  \/ Stage1Return
  \/ ProcessNextEvent
  \/ Return

SpecAnySequence == Init /\ [][NextAnySequence]_vars

----------------------------------------------------------------------------
(* gaWorker.ts: the genetic optimizer *)
(* Rates are kept in hundredths (crossoverRate 80 is 0.8), tardinessWeight in   *)
(* tenths, and a fitness is kept times ten, so that all of them are integers.   *)

undefined == -2     \* what a read past the end of an array yields
unfilled == -1      \* Array(size).fill(-1)

\* Math.floor(Math.random() * k) for an integer k >= 0: the possible values
RandomIndex(k) == IF k <= 0 THEN {0} ELSE 0..(k - 1)

\* Math.random() < rate: the possible outcomes (Math.random() is in [0, 1))
RandomBelow(rate) == { b \in BOOLEAN : (b => rate > 0) /\ (~b => rate < 100) }

\* a[i] for a 0-based index i
At(a, i) == IF i >= 0 /\ i < Len(a) THEN a[i + 1] ELSE undefined

\* a[i] = v for a 0-based index i; a write past the end lengthens the array
SetAt(a, i, v) ==
  IF i < Len(a) THEN [a EXCEPT ![i + 1] = v]
  ELSE a \o [k \in 1..(i - Len(a)) |-> undefined] \o <<v>>

\* the record evaluateFitness builds from the schedule of the simulation
FitnessOfSwapped(sched, weight) ==
  [ fitness |-> (10 - weight) * sched.makespan + weight * sched.totalTardiness,
    makespan |-> sched.totalTardiness,
    totalTardiness |-> sched.makespan ]

FitnessOfWeightsSwapped(sched, weight) ==
  [ fitness |-> weight * sched.makespan + (10 - weight) * sched.totalTardiness,
    makespan |-> sched.makespan,
    totalTardiness |-> sched.totalTardiness ]

FitnessOf(sched, weight) ==
  [ fitness |-> (10 - weight) * sched.makespan + weight * sched.totalTardiness,
    makespan |-> sched.makespan,
    totalTardiness |-> sched.totalTardiness ]

evaluateFitness(js, sequence, weight) == FitnessOf(runSimulation(js, sequence), weight)

\* { chromosome, fitness, makespan, totalTardiness }
WithChromosome(chromosome, e) ==
  [ chromosome |-> chromosome, fitness |-> e.fitness,
    makespan |-> e.makespan, totalTardiness |-> e.totalTardiness ]

\* an evaluated chromosome
Individual(js, chromosome, weight) ==
  WithChromosome(chromosome, evaluateFitness(js, chromosome, weight))

\* [a[i], a[j]] = [a[j], a[i]]
SwapAt(a, i, j) == SetAt(SetAt(a, i, At(a, j)), j, At(a, i))

\* the Fisher-Yates loop from index i down to 1: every array it can produce
RECURSIVE FisherYates(_, _)
FisherYates(chromosome, i) ==
  IF i <= 0 THEN {chromosome}
  ELSE UNION { FisherYates(SwapAt(chromosome, i, j), i - 1) : j \in RandomIndex(i + 1) }

\* the while loop of createInitialPopulation: every population it can produce
RECURSIVE RandomIndividuals(_, _, _, _)
RandomIndividuals(js, pop, populationSize, weight) ==
  IF Len(pop) >= populationSize THEN {pop}
  ELSE LET baseSequence == [i \in DOMAIN js |-> js[i].id]
       IN UNION { RandomIndividuals(js, Append(pop, Individual(js, c, weight)),
                                    populationSize, weight) :
                    c \in FisherYates(baseSequence, Len(baseSequence) - 1) }

createInitialPopulation(js, populationSize, weight, hasInitial, initialSequence) ==
  RandomIndividuals(js,
    IF hasInitial THEN <<Individual(js, initialSequence, weight)>> ELSE <<>>,
    populationSize, weight)

\* array.reduce((best, current) => current.fitness < best.fitness ? current : best)
\* on a non-empty array
RECURSIVE ReduceBest(_, _, _)
ReduceBest(arr, i, best) ==
  IF i > Len(arr) THEN best
  ELSE ReduceBest(arr, i + 1, IF arr[i].fitness < best.fitness THEN arr[i] ELSE best)

RECURSIVE ReduceBestOrEqual(_, _, _)
ReduceBestOrEqual(arr, i, best) ==
  IF i > Len(arr) THEN best
  ELSE ReduceBestOrEqual(arr, i + 1, IF arr[i].fitness <= best.fitness THEN arr[i] ELSE best)

FirstBestTiesLast(arr) == ReduceBestOrEqual(arr, 2, arr[1])

FirstBest(arr) == ReduceBest(arr, 2, arr[1])

\* tournamentSelection: every individual it can return (tournamentSize >= 1)
tournamentSelection(pop, tournamentSize) ==
  { FirstBest([k \in 1..tournamentSize |-> At(pop, picks[k])]) :
      picks \in [1..tournamentSize -> RandomIndex(Len(pop))] }

RECURSIVE FillFromParent2NoSkip(_, _, _, _, _)
FillFromParent2NoSkip(child, parent2, childIndex, parent2Index, size) ==
  IF unfilled \notin Range(child) THEN child
  ELSE FillFromParent2NoSkip(SetAt(child, childIndex, At(parent2, parent2Index)), parent2,
                             (childIndex + 1) % size, (parent2Index + 1) % size, size)

\* "Fill remaining from parent2": the while (child.includes(-1)) loop
RECURSIVE FillFromParent2(_, _, _, _, _)
FillFromParent2(child, parent2, childIndex, parent2Index, size) ==
  IF unfilled \notin Range(child) THEN child
  ELSE IF At(parent2, parent2Index) \notin Range(child)
    THEN FillFromParent2(SetAt(child, childIndex, At(parent2, parent2Index)), parent2,
                         (childIndex + 1) % size, (parent2Index + 1) % size, size)
  ELSE FillFromParent2(child, parent2, childIndex, (parent2Index + 1) % size, size)

RECURSIVE CopySegment(_, _, _, _)
CopySegment(child, parent1, i, end) ==
  IF i > end THEN child
  ELSE CopySegment(SetAt(child, i, At(parent1, i)), parent1, i + 1, end)

\* orderCrossover for the random segment [start, end]
orderCrossover(parent1, parent2, start, end) ==
  LET size == Len(parent1)
      child == CopySegment([k \in 1..size |-> unfilled], parent1, start, end)
  IN IF size = 0 THEN child     \* (end + 1) % 0 is NaN; no -1 is left to fill
     ELSE FillFromParent2(child, parent2, (end + 1) % size, (end + 1) % size, size)

\* the segments orderCrossover can draw
Segments(size) ==
  { <<start, start + d>> : start \in RandomIndex(size), d \in RandomIndex(size) } \cap
  { se \in (0..size) \X (0..(2 * size)) : se[2] - se[1] \in RandomIndex(size - se[1]) }

swapMutation(chromosome, i, j) == SwapAt(chromosome, i, j)

\* array.splice(i, 1) and array.splice(j, 0, gene)
RemoveAt(a, i) ==
  IF i < Len(a) THEN SubSeq(a, 1, i) \o SubSeq(a, i + 2, Len(a)) ELSE a
InsertAt(a, j, v) ==
  LET k == IF j > Len(a) THEN Len(a) ELSE j
  IN SubSeq(a, 1, k) \o <<v>> \o SubSeq(a, k + 1, Len(a))

insertMutation(chromosome, i, j) ==
  InsertAt(RemoveAt(chromosome, i), j, At(chromosome, i))

----------------------------------------------------------------------------
(* Adaptive parameter control.  A real number is kept as the quotient          *)
(* <<numerator, denominator>> of two integers, denominator > 0, in lowest      *)
(* terms.                                                                      *)

Abs(x) == IF x < 0 THEN -x ELSE x

RECURSIVE GCD(_, _)
GCD(a, b) == IF b = 0 THEN a ELSE GCD(b, a % b)

\* n / d in lowest terms (d > 0)
Q(n, d) == LET g == GCD(Abs(n), d) IN <<n \div g, d \div g>>

QAdd(a, b) == Q(a[1] * b[2] + b[1] * a[2], a[2] * b[2])
QSub(a, b) == Q(a[1] * b[2] - b[1] * a[2], a[2] * b[2])
QMul(a, b) == Q(a[1] * b[1], a[2] * b[2])
QLess(a, b) == a[1] * b[2] < b[1] * a[2]
QMin(a, b) == IF QLess(b, a) THEN b ELSE a     \* Math.min
QMax(a, b) == IF QLess(a, b) THEN b ELSE a     \* Math.max

\* Math.random() < rate for a rate kept as a quotient: the possible outcomes
RandomBelowQuotient(rate) ==
  { b \in BOOLEAN : (b => rate[1] > 0) /\ (~b => rate[1] < rate[2]) }

\* Math.sqrt(n) for an integer n >= 0, exact when n is a square (as it is for
\* a population of two), else rounded down: the root lies in lo..hi
RECURSIVE SqrtBetween(_, _, _)
SqrtBetween(n, lo, hi) ==
  IF lo >= hi THEN lo
  ELSE LET mid == (lo + hi + 1) \div 2
       IN IF mid * mid <= n THEN SqrtBetween(n, mid, hi) ELSE SqrtBetween(n, lo, mid - 1)

Sqrt(n) == SqrtBetween(n, 0, IF n < 46340 THEN n ELSE 46340)

hammingDistance(seq1, seq2) ==
  LET minLen == IF Len(seq1) < Len(seq2) THEN Len(seq1) ELSE Len(seq2)
  IN Cardinality({ i \in 1..minLen : seq1[i] # seq2[i] }) + Abs(Len(seq1) - Len(seq2))

\* std / (mean + 1e-10) of the fitnesses as sqrt(P * sum (P f - S)^2) / (P * S),
\* S their sum and P their number; the 1e-10 only keeps a zero mean from
\* dividing by zero, where the quotient is 0
FitnessDiversity(fitnesses) ==
  LET P == Len(fitnesses)
      S == SumSeq(fitnesses)
      squares == SumSeq([i \in 1..P |-> (P * fitnesses[i] - S) * (P * fitnesses[i] - S)])
  IN IF S = 0 THEN <<0, 1>>
     ELSE QMin(<<1, 1>>, Q(Sqrt(P * squares), P * S))

\* the mean of dist / sample[i].chromosome.length over the pairs i < j of the
\* sample (chromosomes of at least one gene), 0.5 for no pair
RECURSIVE SumQ(_)
SumQ(qs) == IF qs = <<>> THEN <<0, 1>> ELSE QAdd(qs[1], SumQ(Tail(qs)))

RECURSIVE PairDistances(_, _, _)
PairDistances(sample, i, j) ==
  IF i > Len(sample) THEN <<>>
  ELSE IF j > Len(sample) THEN PairDistances(sample, i + 1, i + 2)
  ELSE <<Q(hammingDistance(sample[i].chromosome, sample[j].chromosome),
           Len(sample[i].chromosome))>> \o PairDistances(sample, i, j + 1)

ChromDiversity(sample) ==
  LET distances == PairDistances(sample, 1, 2)
  IN IF Len(distances) > 0 THEN QMul(SumQ(distances), <<1, Len(distances)>>) ELSE <<1, 2>>

calculateDiversity(pop) ==
  IF Len(pop) < 2 THEN <<1, 2>>
  ELSE QAdd(QMul(<<4, 10>>, FitnessDiversity([i \in DOMAIN pop |-> pop[i].fitness])),
            QMul(<<6, 10>>,
                 ChromDiversity(SubSeq(pop, 1, IF Len(pop) < 20 THEN Len(pop) ELSE 20))))

\* detectStagnation(fitnessHistory, windowSize) for windowSize >= 2;
\* recent[i] < recent[i - 1] * 0.999 as 1000 * recent[i] < 999 * recent[i - 1]
detectStagnation(history, windowSize) ==
  IF Len(history) < windowSize THEN <<0, 1>>
  ELSE LET recent == SubSeq(history, Len(history) - windowSize + 1, Len(history))
           improvements ==
             Cardinality({ i \in 2..Len(recent) : 1000 * recent[i] < 999 * recent[i - 1] })
       IN QSub(<<1, 1>>, Q(improvements, windowSize - 1))

adaptMutationRate(baseMutationRate, diversity, stagnation, progressRatio) ==
  LET diversityFactor == QSub(<<3, 2>>, diversity)
      stagnationFactor == QAdd(<<1, 1>>, QMul(<<1, 2>>, stagnation))
      progressFactor == QSub(<<1, 1>>, QMul(<<3, 10>>, progressRatio))
      adapted == QMul(QMul(baseMutationRate, diversityFactor),
                      QMul(stagnationFactor, progressFactor))
  IN QMax(<<1, 100>>, QMin(<<1, 2>>, adapted))

\* "Adaptive parameter control" of runGA at the head of generation gen, for the
\* sorted population and the fitness history with this generation's entry
AdaptedRate(config, gen, pop, history) ==
  IF config.useAdaptive /\ gen > 0
    THEN adaptMutationRate(Q(config.mutationRate, 100), calculateDiversity(pop),
                           detectStagnation(history, config.adaptiveWindow),
                           Q(gen, config.generations))
    ELSE Q(config.mutationRate, 100)

\* One turn of the "Generate offspring" loop: every chromosome it can produce
\* from the population (tournamentSize >= 1), mutated at the given rate.
Offspring(pop, config, rate) ==
  LET winners == tournamentSelection(pop, config.tournamentSize)
      crossed ==
        UNION { IF cross
                  THEN { orderCrossover(p1.chromosome, p2.chromosome, se[1], se[2]) :
                           se \in Segments(Len(p1.chromosome)) }
                  ELSE { p1.chromosome } :
                p1 \in winners, p2 \in winners,
                cross \in RandomBelow(config.crossoverRate) }
  IN UNION { IF mutate
               THEN { IF config.mutationMethod = "insert"
                        THEN insertMutation(c, ij[1], ij[2])
                        ELSE swapMutation(c, ij[1], ij[2]) :
                      ij \in RandomIndex(Len(c)) \X RandomIndex(Len(c)) }
               ELSE { c } :
             c \in crossed, mutate \in RandomBelowQuotient(rate) }

\* population.sort((a, b) => a.fitness - b.fitness): stable
RECURSIVE SortByFitness(_)
InsertByFitness(sorted, x) ==
  LET before == { i \in DOMAIN sorted : sorted[i].fitness <= x.fitness }
      k == IF before = {} THEN 0
           ELSE CHOOSE i \in before : \A j \in before : j <= i
  IN SubSeq(sorted, 1, k) \o <<x>> \o SubSeq(sorted, k + 1, Len(sorted))

\* a population left in the order it was built in
PopulationOrderKept(pop) == pop

SortByFitness(pop) ==
  IF pop = <<>> THEN <<>>
  ELSE InsertByFitness(SortByFitness(SubSeq(pop, 1, Len(pop) - 1)), pop[Len(pop)])

SortAndTrackMaximizing(pop, best) ==
  LET sorted == [i \in DOMAIN pop |-> SortByFitness(pop)[Len(pop) + 1 - i]]
      currentBest == sorted[1]
      improved == currentBest.fitness > best.fitness
  IN [ population |-> sorted, currentBest |-> currentBest,
       bestEver |-> IF improved THEN currentBest ELSE best ]

\* "Sort by fitness" and "Track improvements" at the head of a generation
SortAndTrack(pop, best) ==
  LET sorted == SortByFitness(pop)
      currentBest == sorted[1]
      improved == currentBest.fitness < best.fitness
  IN [ population |-> sorted, currentBest |-> currentBest,
       bestEver |-> IF improved THEN currentBest ELSE best ]

\* Math.max(1, Math.floor(config.populationSize * config.elitismRate))
EliteCount(config) == Max2(1, (config.populationSize * config.elitismRate) \div 100)

\* the GAResult that runGA returns (executionTime, a wall-clock reading, left
\* out; improvement kept as the quotient <<numerator, denominator>>, <<0, 0>>
\* when fitnessHistory[0] is undefined)
Result(best, config, history) ==
  [ bestIndividual |-> best,
    bestSequence |-> best.chromosome,
    makespan |-> best.makespan,
    totalTardiness |-> best.totalTardiness,
    improvement |-> IF history = <<>> THEN <<0, 0>>
                    ELSE <<(history[1] - best.fitness) * 100, history[1]>>,
    generationsRun |-> config.generations,
    fitnessHistory |-> history ]

\* a progress report that counts the generations from 1
ProgressMessageCountingFromOne(gen, best) ==
  [ type |-> "PROGRESS", generation |-> gen + 1, bestFitness |-> best.fitness,
    bestMakespan |-> best.makespan, bestTardiness |-> best.totalTardiness,
    bestSequence |-> best.chromosome ]

\* self.postMessage({ type: 'PROGRESS', ... }) of runGA
ProgressMessage(gen, best) ==
  [ type |-> "PROGRESS", generation |-> gen, bestFitness |-> best.fitness,
    bestMakespan |-> best.makespan, bestTardiness |-> best.totalTardiness,
    bestSequence |-> best.chromosome ]

PostErrorThenComplete(out, error) ==
  out \o << [type |-> "ERROR", error |-> error], [type |-> "COMPLETE"] >>

\* the catch block of self.onmessage
PostError(out, error) == Append(out, [type |-> "ERROR", error |-> error])

----------------------------------------------------------------------------
(* The page posts messages; the worker handles them one at a time *)

MaxPopulation == 2     \* populationSize of the enumerated configurations
MaxGenerations == 2    \* generations of the enumerated configurations

TwoJobs ==
  << [id |-> 1, dueDate |-> 100, family |-> 1, t_smd |-> 10, t_aoi |-> 30],
     [id |-> 2, dueDate |-> 140, family |-> 1, t_smd |-> 45, t_aoi |-> 5] >>

ThreeJobs ==
  Append(TwoJobs, [id |-> 3, dueDate |-> 100, family |-> 2, t_smd |-> 10, t_aoi |-> 30])

GAJobLists == { <<>>, TwoJobs, ThreeJobs }

\* the sequences the page passes as initialSequence: the load order
\* (loadedJobs.map(j => j.id)) and, for a reordering, its reverse
InitialSequences(js) ==
  { [i \in DOMAIN js |-> js[i].id], [i \in DOMAIN js |-> js[Len(js) + 1 - i].id] }

\* GA_DEFAULTS with the enumerated fields replaced; tournamentSize -1 is what
\* parseInt yields for a typed "-1"
Configs ==
  { [ populationSize |-> p, generations |-> g, tournamentSize |-> t,
      crossoverRate |-> 80, mutationRate |-> 20, mutationMethod |-> mm,
      elitismRate |-> 10, tardinessWeight |-> w,
      useAdaptive |-> FALSE, adaptiveWindow |-> 10 ] :
    p \in 0..MaxPopulation, g \in 0..MaxGenerations, t \in {-1, 2},
    mm \in {"swap", "insert"}, w \in {0, 5, 10} }

\* worker.postMessage({ type: 'START', jobs, config, initialSequence }); the
\* three-job list is run with populations of at most two
PostStart ==
  /\ ~posted.start
  /\ \E js \in GAJobLists, config \in Configs, hasInitial \in BOOLEAN :
       /\ Len(js) > 2 => config.populationSize <= 2
       /\ \E seq \in (IF hasInitial THEN InitialSequences(js) ELSE {<<>>}) :
            inbox' = Append(inbox, [ type |-> "START", jobs |-> js, config |-> config,
                                     hasInitial |-> hasInitial, initialSequence |-> seq ])
  /\ posted' = [posted EXCEPT !.start = TRUE]
  /\ UNCHANGED <<outbox, cancelRequested, wpc, run, population, newPopulation,
                 bestEver, fitnessHistory, generation, adaptedMutationRate,
                 simVars, queueVars, opVars, pageVars>>

\* runGA is running and its loop has a generation still to start
GenerationAhead ==
  \/ wpc = "generation" /\ generation < run.config.generations
  \/ wpc = "offspring" /\ generation + 1 < run.config.generations

\* handleCancelOptimization: worker.postMessage({ type: 'CANCEL', ... }), once
\* per worker and only to a worker that was sent its START
PostCancel ==
  /\ posted.start
  /\ ~posted.cancel
  /\ inbox' = Append(inbox, [type |-> "CANCEL"])
  /\ posted' = [posted EXCEPT !.cancel = TRUE, !.duringRun = GenerationAhead]
  /\ UNCHANGED <<outbox, cancelRequested, wpc, run, population, newPopulation,
                 bestEver, fitnessHistory, generation, adaptedMutationRate,
                 simVars, queueVars, opVars, pageVars>>

\* self.onmessage for a CANCEL message
HandleCancel ==
  /\ wpc = "idle"
  /\ inbox # <<>>
  /\ Head(inbox).type = "CANCEL"
  /\ inbox' = Tail(inbox)
  /\ cancelRequested' = TRUE
  /\ UNCHANGED <<posted, outbox, wpc, run, population, newPopulation,
                 bestEver, fitnessHistory, generation, adaptedMutationRate,
                 simVars, queueVars, opVars, pageVars>>

\* a START that leaves the flag as the last CANCEL set it
CancelFlagKeptAtStart(requested) == requested

\* cancelRequested = false at the head of the START branch
CancelFlagAtStart(requested) == FALSE

\* self.onmessage for a START message, up to the head of the generation loop:
\* createInitialPopulation and the first bestEver (reduce throws on an empty
\* population)
HandleStart ==
  /\ wpc = "idle"
  /\ inbox # <<>>
  /\ Head(inbox).type = "START"
  /\ inbox' = Tail(inbox)
  /\ cancelRequested' = CancelFlagAtStart(cancelRequested)
  /\ LET m == Head(inbox)
     IN /\ run' = [ jobs |-> m.jobs, config |-> m.config,
                    hasInitial |-> m.hasInitial, initialSequence |-> m.initialSequence ]
        /\ \E pop \in createInitialPopulation(m.jobs, m.config.populationSize,
                        m.config.tardinessWeight, m.hasInitial, m.initialSequence) :
             /\ population' = pop
             /\ IF pop = <<>>
                  THEN /\ outbox' = PostError(outbox, "TypeError")
                       /\ wpc' = "idle"
                       /\ bestEver' = bestEver
                  ELSE /\ outbox' = outbox
                       /\ wpc' = "generation"
                       /\ bestEver' = FirstBest(pop)
  /\ fitnessHistory' = <<>>
  /\ generation' = 0
  /\ newPopulation' = <<>>
  /\ UNCHANGED <<posted, adaptedMutationRate, simVars, queueVars, opVars, pageVars>>

\* the head of one generation: cancellation check, sort, best-ever tracking,
\* progress report, elitism
BeginGeneration ==
  /\ wpc = "generation"
  /\ generation < run.config.generations
  /\ IF cancelRequested
       THEN /\ outbox' = PostError(outbox, "Optimization cancelled")
            /\ wpc' = "idle"
            /\ UNCHANGED <<population, newPopulation, bestEver, fitnessHistory,
                           adaptedMutationRate>>
       ELSE LET t == SortAndTrack(population, bestEver)
            IN /\ population' = t.population
               /\ bestEver' = t.bestEver
               /\ fitnessHistory' = Append(fitnessHistory, t.currentBest.fitness)
               /\ outbox' = Append(outbox, ProgressMessage(generation, t.bestEver))
               /\ adaptedMutationRate' =
                    AdaptedRate(run.config, generation, t.population,
                                Append(fitnessHistory, t.currentBest.fitness))
               /\ newPopulation' = SubSeq(t.population, 1, EliteCount(run.config))
               /\ wpc' = "offspring"
  /\ UNCHANGED <<inbox, posted, cancelRequested, run, generation, simVars, queueVars, opVars, pageVars>>

\* one turn of the offspring loop (tournament.reduce throws on an empty tournament)
MakeOffspring ==
  /\ wpc = "offspring"
  /\ Len(newPopulation) < run.config.populationSize
  /\ IF run.config.tournamentSize <= 0
       THEN /\ outbox' = PostError(outbox, "TypeError")
            /\ wpc' = "idle"
            /\ UNCHANGED newPopulation
       ELSE /\ \E c \in Offspring(population, run.config, adaptedMutationRate) :
                 newPopulation' =
                   Append(newPopulation, Individual(run.jobs, c, run.config.tardinessWeight))
            /\ UNCHANGED <<outbox, wpc>>
  /\ UNCHANGED <<inbox, posted, cancelRequested, run, population, bestEver,
                 fitnessHistory, generation, adaptedMutationRate, simVars, queueVars, opVars, pageVars>>

\* population = newPopulation; generation++
EndGeneration ==
  /\ wpc = "offspring"
  /\ Len(newPopulation) >= run.config.populationSize
  /\ population' = newPopulation
  /\ newPopulation' = <<>>
  /\ generation' = generation + 1
  /\ wpc' = "generation"
  /\ UNCHANGED <<inbox, posted, outbox, cancelRequested, run, bestEver,
                 fitnessHistory, adaptedMutationRate, simVars, queueVars, opVars, pageVars>>

\* runGA returns and the handler posts COMPLETE
Complete ==
  /\ wpc = "generation"
  /\ generation >= run.config.generations
  /\ outbox' = Append(outbox, [ type |-> "COMPLETE",
                                result |-> Result(bestEver, run.config, fitnessHistory) ])
  /\ wpc' = "idle"
  /\ UNCHANGED <<inbox, posted, cancelRequested, run, population, newPopulation,
                 bestEver, fitnessHistory, generation, adaptedMutationRate,
                 simVars, queueVars, opVars, pageVars>>

NextGA ==
  \/ PostStart
  \/ PostCancel
  \/ HandleCancel
  \/ HandleStart
  \/ BeginGeneration
  \/ MakeOffspring
  \/ EndGeneration
  \/ Complete

SpecGA == Init /\ [][NextGA]_vars

----------------------------------------------------------------------------
(* Runs of the optimizer over populations and elitism rates at which          *)
(* populationSize * elitismRate is not a whole number                         *)

MaxElitePopulation == 4    \* populationSize of these runs: 3..MaxElitePopulation

\* GA_DEFAULTS with populationSize, generations and elitismRate replaced; the
\* rates are the ends of the slider of the configuration dialog (0.05 and 0.3)
\* and its default (0.1)
ElitismConfigs ==
  { [ populationSize |-> p, generations |-> 1, tournamentSize |-> 2,
      crossoverRate |-> 80, mutationRate |-> 20, mutationMethod |-> "swap",
      elitismRate |-> e, tardinessWeight |-> 0,
      useAdaptive |-> FALSE, adaptiveWindow |-> 10 ] :
    p \in 3..MaxElitePopulation, e \in {5, 10, 30} }

\* worker.postMessage({ type: 'START', jobs, config }) with such a configuration
PostStartElitism ==
  /\ ~posted.start
  /\ \E config \in ElitismConfigs :
       inbox' = Append(inbox, [ type |-> "START", jobs |-> TwoJobs, config |-> config,
                                hasInitial |-> FALSE, initialSequence |-> <<>> ])
  /\ posted' = [posted EXCEPT !.start = TRUE]
  /\ UNCHANGED <<outbox, cancelRequested, wpc, run, population, newPopulation,
                 bestEver, fitnessHistory, generation, adaptedMutationRate,
                 simVars, queueVars, opVars, pageVars>>

NextElitism ==
  \/ PostStartElitism
  \/ HandleStart
  \/ BeginGeneration
  \/ MakeOffspring
  \/ EndGeneration
  \/ Complete

SpecElitism == Init /\ [][NextElitism]_vars

----------------------------------------------------------------------------
(* A PriorityQueue<SimulationEvent> used on its own: any pushes and pops *)

MaxQueue == 3     \* events held by the queue at once
MaxTime == 2      \* event times 1..MaxTime

\* the two event types runSimulation pushes, at the enumerated times
QueueEvents ==
  { [type |-> t, time |-> k] : t \in {"STAGE1_COMPLETE", "SIMULATION_END"}, k \in 1..MaxTime }

\* the priority record of extractEventTimeline
priority(type) ==
  CASE type = "SETUP_START" -> 1
    [] type = "SETUP_END" -> 2
    [] type = "JOB_START" -> 3
    [] type = "STAGE1_COMPLETE" -> 4
    [] type = "SIMULATION_END" -> 5

\* queue.push(item)
QueuePush ==
  /\ Len(queueItems) < MaxQueue
  /\ \E item \in QueueEvents : queueItems' = push(queueItems, item)
  /\ UNCHANGED <<popped, simVars, gaVars, opVars, pageVars>>

\* queue.pop(): this.items.shift(), undefined on an empty array
QueuePop ==
  /\ popped' = [called |-> TRUE,
                value |-> IF queueItems = <<>> THEN <<>> ELSE <<Head(queueItems)>>]
  /\ queueItems' = IF queueItems = <<>> THEN <<>> ELSE Tail(queueItems)
  /\ UNCHANGED <<simVars, gaVars, opVars, pageVars>>

NextQueue ==
  \/ QueuePush
  \/ QueuePop

SpecQueue == Init /\ [][NextQueue]_vars

----------------------------------------------------------------------------
(* The genetic operators called on their own, for every random choice.       *)
(* The operators keep no state between calls: a behaviour is one call.       *)

MaxGenes == 3     \* length of the enumerated chromosomes, and their job ids 1..MaxGenes

\* any array of job ids, also the empty one and arrays with repeated ids
Chromosomes == UNION { [1..n -> 1..MaxGenes] : n \in 0..MaxGenes }

\* the turns the while (child.includes(-1)) loop takes; counting stops beyond
\* twice the size
RECURSIVE FillTurns(_, _, _, _, _, _)
FillTurns(child, parent2, childIndex, parent2Index, size, turns) ==
  IF unfilled \notin Range(child) \/ turns > 2 * size THEN turns
  ELSE IF At(parent2, parent2Index) \notin Range(child)
    THEN FillTurns(SetAt(child, childIndex, At(parent2, parent2Index)), parent2,
                   (childIndex + 1) % size, (parent2Index + 1) % size, size, turns + 1)
  ELSE FillTurns(child, parent2, childIndex, (parent2Index + 1) % size, size, turns + 1)

\* orderCrossover(parent1, parent2) on two permutations of 1..n; the function
\* writes to child only, so the parents are afterwards what they were
CallOrderCrossover ==
  /\ call = NoCall
  /\ \E n \in 1..MaxGenes : \E parent1, parent2 \in PermSeqs(1..n) : \E se \in Segments(n) :
       call' = [ operator |-> "orderCrossover",
                 args |-> <<parent1, parent2, se[1], se[2]>>,
                 argsAfter |-> <<parent1, parent2>>,
                 returned |-> orderCrossover(parent1, parent2, se[1], se[2]),
                 turns |-> FillTurns(CopySegment([k \in 1..n |-> unfilled], parent1,
                                                 se[1], se[2]),
                                     parent2, (se[2] + 1) % n, (se[2] + 1) % n, n, 0) ]
  /\ UNCHANGED <<simVars, gaVars, queueVars, pageVars>>

\* swapMutation(chromosome); the function works on the copy [...chromosome]
CallSwapMutation ==
  /\ call = NoCall
  /\ \E chromosome \in Chromosomes :
     \E i \in RandomIndex(Len(chromosome)), j \in RandomIndex(Len(chromosome)) :
       call' = [ operator |-> "swapMutation",
                 args |-> <<chromosome, i, j>>,
                 argsAfter |-> <<chromosome>>,
                 returned |-> swapMutation(chromosome, i, j),
                 turns |-> 0 ]
  /\ UNCHANGED <<simVars, gaVars, queueVars, pageVars>>

\* insertMutation(chromosome); the function works on the copy [...chromosome]
CallInsertMutation ==
  /\ call = NoCall
  /\ \E chromosome \in Chromosomes :
     \E i \in RandomIndex(Len(chromosome)), j \in RandomIndex(Len(chromosome)) :
       call' = [ operator |-> "insertMutation",
                 args |-> <<chromosome, i, j>>,
                 argsAfter |-> <<chromosome>>,
                 returned |-> insertMutation(chromosome, i, j),
                 turns |-> 0 ]
  /\ UNCHANGED <<simVars, gaVars, queueVars, pageVars>>

NextOperators ==
  \/ CallOrderCrossover
  \/ CallSwapMutation
  \/ CallInsertMutation

SpecOperators == Init /\ [][NextOperators]_vars

----------------------------------------------------------------------------
(* Properties of the simulator *)

Stage1Idx(st) == { i \in DOMAIN st.machines : st.machines[i].stage = 1 }

ScheduledOf(cj, s) == { i \in DOMAIN cj : cj[i].stage = s }

\* C1: in every state of a run of runSimulation, for every family at most one
\* stage-1 machine has that family as its currentSetupKit.
C1_KitOnAtMostOneMachine ==
  \A f \in DOMAIN state.setupKits :
    Cardinality({ i \in Stage1Idx(state) : state.machines[i].currentSetupKit = f }) <= 1

\* C1 witness: a machine has changed its family (two kits are bound to it, one of
\* them mounted) while another machine has a family mounted too.
C1_Witness ==
  \E f, g \in DOMAIN state.setupKits : \E i, k \in Stage1Idx(state) :
    /\ f # g /\ i # k
    /\ state.setupKits[f].currentMachine = state.machines[i].id
    /\ state.setupKits[g].currentMachine = state.machines[i].id
    /\ state.machines[i].currentSetupKit = f
    /\ state.machines[k].currentSetupKit \notin {null, f}

\* the occupied interval [setupStartTime, endTime) of two records is disjoint
Disjoint(a, b) == a.endTime <= b.setupStartTime \/ b.endTime <= a.setupStartTime

\* C2: in a returned Schedule two stage-1 ScheduledJobs of the same family on
\* different stage-1 machines never occupy overlapping intervals
\* [setupStartTime, endTime).
C2_NoFamilyOverlap ==
  pc = "done" =>
    \A i, j \in ScheduledOf(schedule.jobs, 1) :
      LET a == schedule.jobs[i]
          b == schedule.jobs[j]
      IN (i # j /\ a.family = b.family /\ a.machineId # b.machineId) => Disjoint(a, b)

\* C2 witness: a returned Schedule with two stage-1 jobs of one family, between
\* which their machine was set up for another family, all jobs scheduled twice.
C2_Witness ==
  /\ pc = "done"
  /\ Len(schedule.jobs) = 2 * Len(jobs)
  /\ \E i, k, j \in ScheduledOf(schedule.jobs, 1) :
       /\ i < k /\ k < j
       /\ schedule.jobs[i].family = schedule.jobs[j].family
       /\ schedule.jobs[k].family # schedule.jobs[i].family
       /\ schedule.jobs[i].machineId = schedule.jobs[k].machineId
       /\ schedule.jobs[j].machineId = schedule.jobs[k].machineId

\* C3: a stage-2 ScheduledJob of a job exists only if a stage-1 ScheduledJob of
\* it exists, and its setupStartTime (hence its startTime) is not before the
\* stage-1 endTime of the job.
C3_Stage2AfterStage1 ==
  \A j \in ScheduledOf(state.completedJobs, 2) :
    \E i \in ScheduledOf(state.completedJobs, 1) :
      LET s1 == state.completedJobs[i]
          s2 == state.completedJobs[j]
      IN /\ s1.jobId = s2.jobId
         /\ s2.setupStartTime >= s1.endTime
         /\ s2.startTime >= s1.endTime

\* C3 witness: a job that had to wait for a stage-2 machine (its stage-2 setup
\* starts after its stage-1 end) in a returned Schedule.
C3_Witness ==
  /\ pc = "done"
  /\ schedule.jobs = state.completedJobs
  /\ \E j \in ScheduledOf(schedule.jobs, 2) : \E i \in ScheduledOf(schedule.jobs, 1) :
       /\ schedule.jobs[i].jobId = schedule.jobs[j].jobId
       /\ schedule.jobs[j].setupStartTime > schedule.jobs[i].endTime
  /\ \E j \in ScheduledOf(schedule.jobs, 2) : \E i \in ScheduledOf(schedule.jobs, 1) :
       /\ schedule.jobs[i].jobId = schedule.jobs[j].jobId
       /\ schedule.jobs[j].setupStartTime = schedule.jobs[i].endTime

\* C4: every stage-2 ScheduledJob has tardiness = max(0, endTime - dueDate of
\* its job) and isLate exactly when tardiness > 0; every stage-1 ScheduledJob
\* has tardiness 0 and isLate false.
C4_Tardiness ==
  \A i \in DOMAIN state.completedJobs :
    LET sj == state.completedJobs[i]
        due == GetJob(jobs, sj.jobId).dueDate
    IN IF sj.stage = 2
         THEN /\ sj.tardiness = (IF sj.endTime > due THEN sj.endTime - due ELSE 0)
              /\ sj.isLate = (sj.tardiness > 0)
         ELSE sj.tardiness = 0 /\ sj.isLate = FALSE

\* C4 witness: a returned Schedule with a late job, a job that ends exactly at
\* its due date, and a job that ends before it.
C4_Witness ==
  /\ pc = "done"
  /\ \E i \in ScheduledOf(schedule.jobs, 2) : schedule.jobs[i].isLate
  /\ \E i \in ScheduledOf(schedule.jobs, 2) :
       /\ ~schedule.jobs[i].isLate
       /\ schedule.jobs[i].endTime = GetJob(jobs, schedule.jobs[i].jobId).dueDate
  /\ \E i \in ScheduledOf(schedule.jobs, 2) :
       schedule.jobs[i].endTime < GetJob(jobs, schedule.jobs[i].jobId).dueDate

\* C5: Schedule.makespan is the maximum endTime over all ScheduledJobs (0 for
\* none), and for a non-empty job list run to completion that maximum is the
\* endTime of a stage-2 ScheduledJob.
C5_Makespan ==
  pc = "done" =>
    /\ \A i \in DOMAIN schedule.jobs : schedule.jobs[i].endTime <= schedule.makespan
    /\ schedule.jobs = <<>> => schedule.makespan = 0
    /\ jobs # <<>> =>
         \E i \in ScheduledOf(schedule.jobs, 2) :
           schedule.jobs[i].endTime = schedule.makespan

\* C5 witness: a returned Schedule whose last-ending stage-2 job is not the job
\* that ends stage 1 last.
C5_Witness ==
  /\ pc = "done"
  /\ jobs # <<>>
  /\ \E i \in ScheduledOf(schedule.jobs, 2) : \E k \in ScheduledOf(schedule.jobs, 1) :
       /\ schedule.jobs[i].endTime = schedule.makespan
       /\ schedule.jobs[k].jobId # schedule.jobs[i].jobId
       /\ \A m \in ScheduledOf(schedule.jobs, 1) :
            schedule.jobs[m].endTime <= schedule.jobs[k].endTime
       /\ \A m \in ScheduledOf(schedule.jobs, 1) :
            m # k => schedule.jobs[m].endTime < schedule.jobs[k].endTime

\* C6: a call of runSimulation returns the Schedule that an earlier call with
\* the same (jobs, jobSequence) returned, whatever calls were made in between.
C6_Deterministic ==
  (/\ pc = "done"
   /\ remembered # <<>>
   /\ remembered.jobs = jobs
   /\ remembered.jobSequence = jobSequence)
  => schedule = remembered.schedule

\* C6 witness: a call on a non-empty job list returns after a call with the same
\* arguments and a later call with other arguments.
C6_Witness ==
  /\ pc = "done"
  /\ remembered # <<>>
  /\ remembered.later
  /\ remembered.jobs = jobs
  /\ remembered.jobSequence = jobSequence
  /\ Len(jobs) >= 2
  /\ schedule.jobs # <<>>

----------------------------------------------------------------------------
(* Properties of the genetic optimizer *)

\* a run of runGA is under way or over
Started == run # NoRun

IsPermutationOfJobIds(chromosome, js) ==
  /\ Len(chromosome) = Len(js)
  /\ Range(chromosome) = JobIds(js)

\* C7: when initialSequence is absent or a permutation of the job ids, every
\* chromosome of the initial population and of the population after every
\* generation is a permutation of exactly the input job ids.
C7_ChromosomesArePermutations ==
  (Started /\ (run.hasInitial => IsPermutationOfJobIds(run.initialSequence, run.jobs)))
    => \A i \in DOMAIN population :
         IsPermutationOfJobIds(population[i].chromosome, run.jobs)

ProgressIdx == { i \in DOMAIN outbox : outbox[i].type = "PROGRESS" }

ProgressNonIncreasing ==
  \A i \in ProgressIdx, k \in ProgressIdx :
    (outbox[i].generation + 1 = outbox[k].generation)
      => outbox[k].bestFitness <= outbox[i].bestFitness

BestEverStrictlyImproves ==
  (wpc # "idle" /\ bestEver' # bestEver) => bestEver'.fitness < bestEver.fitness

\* C8: within one run the best-ever fitness never increases: the bestFitness of
\* the PROGRESS message of generation g+1 is at most that of generation g, and
\* the best-ever individual is replaced only by a strictly fitter one.
C8_BestEverNonIncreasing ==
  []ProgressNonIncreasing /\ [][BestEverStrictlyImproves]_vars

\* a later generation reported a strictly better best-ever fitness
C8_Witness ==
  \E i \in ProgressIdx, k \in ProgressIdx :
    /\ outbox[i].generation + 1 = outbox[k].generation
    /\ outbox[k].bestFitness < outbox[i].bestFitness
    /\ outbox[k].bestSequence # outbox[i].bestSequence

CompleteIdx == { i \in DOMAIN outbox : outbox[i].type = "COMPLETE" }

\* C9: simulating the bestSequence of a GAResult again gives exactly the
\* makespan and totalTardiness the result reports.
C9_ResultReproducible ==
  \A i \in CompleteIdx :
    FitnessOf(runSimulation(run.jobs, outbox[i].result.bestSequence), 0) =
      [ fitness |-> 10 * outbox[i].result.makespan,
        makespan |-> outbox[i].result.makespan,
        totalTardiness |-> outbox[i].result.totalTardiness ]

\* a run over three jobs completed after an offspring became the best ever
C9_Witness ==
  \E i \in CompleteIdx :
    /\ Len(run.jobs) = 3
    /\ outbox[i].result.makespan > outbox[i].result.totalTardiness
    /\ outbox[i].result.totalTardiness > 0
    /\ Len(outbox[i].result.fitnessHistory) > 1
    /\ outbox[i].result.improvement[1] > 0

Terminal(m) == m.type \in {"COMPLETE", "ERROR"}

\* C10: for a handled START the worker posts zero or more PROGRESS messages,
\* then exactly one terminal message (COMPLETE or ERROR), and nothing after it.
C10_ProgressThenOneTerminal ==
  /\ \A i \in DOMAIN outbox : i < Len(outbox) => outbox[i].type = "PROGRESS"
  /\ (Started /\ wpc # "idle") => \A i \in DOMAIN outbox : outbox[i].type = "PROGRESS"
  /\ (Started /\ wpc = "idle") => (outbox # <<>> /\ Terminal(outbox[Len(outbox)]))
  /\ ~Started => outbox = <<>>

\* a run that reported progress and then threw
C10_Witness ==
  /\ Started
  /\ wpc = "idle"
  /\ Len(outbox) > 1
  /\ outbox[1].type = "PROGRESS"
  /\ outbox[Len(outbox)].type = "ERROR"

----------------------------------------------------------------------------
(* Error handling and termination of the simulator *)

\* C12: a job sequence that is not a permutation of the job ids is rejected
\* before the simulation starts: runSimulation returns no Schedule for it.
C12_NonPermutationRejected ==
  (pc = "done" /\ ~IsPermutationOfJobIds(jobSequence, jobs)) => schedule = NoSchedule

\* the records of the returned Schedule for job id at stage st
RecordsOf(id, st) ==
  { i \in DOMAIN schedule.jobs : schedule.jobs[i].jobId = id /\ schedule.jobs[i].stage = st }

\* C14: for n jobs with positive durations and a permutation of their ids,
\* runSimulation ends with an empty event queue and empty stage queues after
\* exactly 2n events, and the Schedule holds exactly one stage-1 and one
\* stage-2 record for every job.
C14_TerminatesWithAllJobsScheduled ==
  /\ iterations <= 2 * Len(jobs)
  /\ pc = "done" =>
       /\ eventQueue = <<>>
       /\ state.stage1Queue = <<>>
       /\ state.stage2Queue = <<>>
       /\ iterations = 2 * Len(jobs)
       /\ Len(schedule.jobs) = 2 * Len(jobs)
       /\ \A k \in DOMAIN jobs :
            /\ Cardinality(RecordsOf(jobs[k].id, 1)) = 1
            /\ Cardinality(RecordsOf(jobs[k].id, 2)) = 1

\* the six-job run has returned after twelve events
C14_Witness ==
  /\ pc = "done"
  /\ Len(jobs) = 6
  /\ iterations = 12
  /\ Len(schedule.jobs) = 12

\* C15: runSimulation([], []) returns a Schedule with no ScheduledJobs,
\* makespan 0, totalTardiness 0, averageTardiness 0 and both utilizations 0.
C15_EmptyRun ==
  (pc = "done" /\ jobs = <<>> /\ jobSequence = <<>>) =>
    /\ schedule.jobs = <<>>
    /\ schedule.makespan = 0
    /\ schedule.totalTardiness = 0
    /\ schedule.averageTardiness = <<0, 1>>
    /\ schedule.utilization = [stage1 |-> <<0, 1>>, stage2 |-> <<0, 1>>]

\* the call with no jobs has returned
C15_Witness ==
  /\ pc = "done"
  /\ jobs = <<>>
  /\ jobSequence = <<>>
  /\ iterations = 0
  /\ schedule.setupCount = 0

----------------------------------------------------------------------------
(* Further properties of the genetic optimizer *)

MinFitnessIdx == { k \in DOMAIN population :
                     \A j \in DOMAIN population : population[k].fitness <= population[j].fitness }

\* C16: with generations = 0 runGA posts no PROGRESS and returns a result with
\* generationsRun = 0 whose bestSequence is a minimum-fitness individual of
\* the initial population, the seeded initialSequence whenever that has the
\* minimum fitness (also when tied).
C16_ZeroGenerations ==
  (Started /\ run.config.generations = 0) =>
    /\ ProgressIdx = {}
    /\ \A i \in CompleteIdx :
         /\ outbox[i].result.generationsRun = 0
         /\ \E k \in MinFitnessIdx :
              population[k].chromosome = outbox[i].result.bestSequence
         /\ (run.hasInitial /\ 1 \in MinFitnessIdx)
              => outbox[i].result.bestSequence = run.initialSequence

\* a run of no generations returned the seed although a different random
\* individual has the same, minimal fitness
C16_Witness ==
  /\ Started
  /\ run.config.generations = 0
  /\ run.hasInitial
  /\ CompleteIdx # {}
  /\ \E k \in MinFitnessIdx : population[k].chromosome # run.initialSequence
  /\ \A i \in CompleteIdx : outbox[i].result.bestSequence = run.initialSequence

\* individual ind carries the metrics of Schedule sched and the fitness
\* (1 - w) * makespan + w * totalTardiness (w in tenths, the fitness times ten)
CarriesFitnessOf(ind, sched, w) ==
  /\ ind.makespan = sched.makespan
  /\ ind.totalTardiness = sched.totalTardiness
  /\ ind.fitness = (10 - w) * sched.makespan + w * sched.totalTardiness
  /\ w = 0 => ind.fitness = 10 * sched.makespan
  /\ w = 10 => ind.fitness = 10 * sched.totalTardiness

----------------------------------------------------------------------------
(* Properties of the event queue *)

\* e is a pending event of smallest time and, among those, of highest type priority
FirstByTimeThenType(e, pending) ==
  /\ e \in Range(pending)
  /\ \A o \in Range(pending) :
       \/ e.time < o.time
       \/ e.time = o.time /\ priority(e.type) <= priority(o.type)

PopReturnsFirst ==
  /\ Len(queueItems') < Len(queueItems) =>
       /\ Len(popped'.value) = 1
       /\ FirstByTimeThenType(popped'.value[1], queueItems)
  /\ (queueItems = <<>> /\ queueItems' = <<>>) => popped'.value = <<>>

\* C18: pop returns the pending event of smallest time, among events of equal
\* time the one of higher type priority (stage-1-complete before
\* stage-2-complete), and returns empty on an empty queue.
C18_PopByTimeThenTypePriority == [][PopReturnsFirst]_vars

----------------------------------------------------------------------------
(* Stage-1 assignment *)

\* this step appends a stage-1 record: one turn of tryAssignStage1Jobs that assigns
AssignsStage1 ==
  /\ pc = "assign1"
  /\ Len(state'.completedJobs) = Len(state.completedJobs) + 1
  /\ state'.completedJobs[Len(state'.completedJobs)].stage = 1

\* the record such a step appends follows the setup rule for the machine it
\* names, as that machine and the family's kit were before the step
SetupRuleOfStep ==
  AssignsStage1 =>
    LET sj == state'.completedJobs[Len(state'.completedJobs)]
        m == state.machines[sj.machineId]
        kit == state.setupKits[sj.family]
    IN /\ m.stage = 1
       /\ sj.jobId = state.stage1Queue[1]
       /\ (m.currentSetupKit = sj.family)
            => (sj.setupType = "minor" /\ sj.setupTime = SETUP_TIME_SMD_MINOR)
       /\ (m.currentSetupKit # sj.family)
            => /\ kit.currentMachine \in {null, m.id}
               /\ sj.setupType = "major"
               /\ sj.setupTime = SETUP_TIME_SMD_MAJOR

\* every stage-1 record: startTime = setupStartTime + setupTime and
\* endTime = startTime + t_smd
Stage1RecordTimes ==
  \A i \in DOMAIN state.completedJobs :
    LET sj == state.completedJobs[i]
    IN sj.stage = 1 =>
         /\ sj.startTime = sj.setupStartTime + sj.setupTime
         /\ sj.endTime = sj.startTime + GetJob(jobs, sj.jobId).t_smd

\* <<setupType, setupStartTime, startTime, endTime, machineId>> of record i
TimesOf(i) ==
  << state.completedJobs[i].setupType, state.completedJobs[i].setupStartTime,
     state.completedJobs[i].startTime, state.completedJobs[i].endTime,
     state.completedJobs[i].machineId >>

ThreeOfOneFamily ==
  /\ Len(jobs) = 3
  /\ jobSequence = <<1, 2, 3>>
  /\ \A k \in DOMAIN jobs : jobs[k].family = jobs[1].family /\ jobs[k].t_smd = 10

ThreeOfOneFamilyTimes ==
  (ThreeOfOneFamily /\ pc = "done") =>
    /\ TimesOf(1) = <<"major", 0, 65, 75, 1>>
    /\ TimesOf(2) = <<"minor", 75, 95, 105, 1>>
    /\ TimesOf(3) = <<"minor", 105, 125, 135, 1>>

FeasibleFor(m, kit, f) ==
  m.currentSetupKit = f \/ kit.currentMachine \in {null, m.id}

\* the job start time machine m offers: max(clock, machine, kit) + setup
StartOn(st, m, kit, f) ==
  Max3(st.currentTime, m.availableAt, kit.availableAt)
    + (IF m.currentSetupKit = f THEN SETUP_TIME_SMD_MINOR ELSE SETUP_TIME_SMD_MAJOR)

\* an assigning step takes the queue head and puts it on the feasible stage-1
\* machine of smallest start time, the lowest-numbered one on ties
EarliestFeasibleMachine ==
  AssignsStage1 =>
    LET sj == state'.completedJobs[Len(state'.completedJobs)]
        m == state.machines[sj.machineId]
        kit == state.setupKits[sj.family]
    IN /\ sj.jobId = state.stage1Queue[1]
       /\ state'.stage1Queue = Tail(state.stage1Queue)
       /\ FeasibleFor(m, kit, sj.family)
       /\ sj.startTime = StartOn(state, m, kit, sj.family)
       /\ \A k \in DOMAIN state.machines :
            (state.machines[k].stage = 1 /\ FeasibleFor(state.machines[k], kit, sj.family))
              => \/ StartOn(state, state.machines[k], kit, sj.family) > sj.startTime
                 \/ /\ StartOn(state, state.machines[k], kit, sj.family) = sj.startTime
                    /\ state.machines[k].id >= m.id

\* the stage-1 records so far, then the stage-1 queue, are the job sequence
Stage1InSequenceOrder ==
  pc # "idle" =>
    [i \in DOMAIN FilterStage(state.completedJobs, 1) |->
        FilterStage(state.completedJobs, 1)[i].jobId] \o state.stage1Queue = jobSequence

\* C20: the stage-1 queue head goes to the feasible stage-1 machine whose job
\* start time max(clock, machine.availableAt, kit.availableAt) + setupTime is
\* smallest, the lowest-numbered on ties; no later job overtakes the head, so
\* stage-1 records are appended in sequence order.
C20_EarliestFeasibleMachine ==
  []Stage1InSequenceOrder /\ [][EarliestFeasibleMachine]_vars

\* the six-job run: job 5 of a fifth family went to machine 1 (free at 75)
\* rather than machine 3 (free at 85), job 2 to machine 2 among the tied
\* machines 2, 3 and 4
C20_Witness ==
  /\ pc = "done"
  /\ Len(jobs) = 6
  /\ jobSequence = <<1, 2, 3, 4, 5, 6>>
  /\ state.completedJobs[2].jobId = 2
  /\ state.completedJobs[2].machineId = 2
  /\ state.completedJobs[5].jobId = 5
  /\ state.completedJobs[5].machineId = 1
  /\ state.completedJobs[5].startTime = 140

----------------------------------------------------------------------------
(* Stage-2 assignment *)

\* this step appends a stage-2 record: processEvent of a stage-1 completion
\* whose tryAssignStage2Jobs assigns
AssignsStage2 ==
  /\ pc = "loop"
  /\ Len(state'.completedJobs) = Len(state.completedJobs) + 1
  /\ state'.completedJobs[Len(state'.completedJobs)].stage = 2

\* the record such a step appends names the stage-2 machine of smallest
\* availableAt before the step (lowest-numbered on ties), has the fixed AOI
\* setup, and its times follow from the job's stage-1 end, that machine's
\* availableAt before the step and the clock of the step
Stage2RuleOfStep ==
  AssignsStage2 =>
    LET sj == state'.completedJobs[Len(state'.completedJobs)]
        m == state.machines[sj.machineId]
        s1 == state.completedJobs[FindStage1Job(state, sj.jobId)]
    IN /\ m.stage = 2
       /\ \A k \in DOMAIN state.machines :
            state.machines[k].stage = 2 =>
              \/ state.machines[k].availableAt > m.availableAt
              \/ /\ state.machines[k].availableAt = m.availableAt
                 /\ state.machines[k].id >= m.id
       /\ sj.setupType = "aoi"
       /\ sj.setupTime = 25
       /\ sj.setupStartTime = Max3(s1.endTime, m.availableAt, state'.currentTime)
       /\ sj.startTime = sj.setupStartTime + 25
       /\ sj.endTime = sj.startTime + GetJob(jobs, sj.jobId).t_aoi
       /\ state'.machines[sj.machineId].availableAt = sj.endTime

\* C21: a job entering stage 2 goes to the stage-2 machine of smallest
\* availableAt (lowest-numbered on ties), always with setupType 'aoi' and
\* setupTime 25; setupStartTime = max(stage-1 endTime, machine.availableAt,
\* clock), startTime = setupStartTime + 25, endTime = startTime + t_aoi, and
\* the machine's availableAt becomes that endTime.
C21_Stage2Assignment == [][Stage2RuleOfStep]_vars

\* the six-job run: the sixth job to leave stage 1 found every stage-2 machine
\* busy and waited for the lowest-numbered of the machines that free first
C21_Witness ==
  /\ pc = "done"
  /\ Len(jobs) = 6
  /\ \E i \in ScheduledOf(state.completedJobs, 2) :
       LET sj == state.completedJobs[i]
       IN /\ sj.setupStartTime > state.completedJobs[FindStage1Job(state, sj.jobId)].endTime
          /\ sj.machineId = STAGE1_MACHINES + 1
          /\ state.machines[sj.machineId].availableAt = sj.endTime
          /\ sj.setupType = "aoi"

\* the indices of the stage-2 records of job id among the records so far
Stage2RecordsOf(st, id) ==
  { i \in DOMAIN st.completedJobs :
      st.completedJobs[i].jobId = id /\ st.completedJobs[i].stage = 2 }

\* stage-2 records are in the order of the stage-1 ends of their jobs: when job
\* b has a stage-2 record, every job a that ended stage 1 earlier has one that
\* stands before it and whose setup starts no later
Stage2InCompletionOrder ==
  \A kb \in ScheduledOf(state.completedJobs, 2) :
    \A ia, ib \in ScheduledOf(state.completedJobs, 1) :
      (/\ state.completedJobs[ib].jobId = state.completedJobs[kb].jobId
       /\ state.completedJobs[ia].endTime < state.completedJobs[ib].endTime)
      => \E ka \in ScheduledOf(state.completedJobs, 2) :
           /\ state.completedJobs[ka].jobId = state.completedJobs[ia].jobId
           /\ ka < kb
           /\ state.completedJobs[ka].setupStartTime <= state.completedJobs[kb].setupStartTime

\* a turn of the event loop on a stage-1 completion sets the clock to the
\* stage-1 endTime of the event's job and gives that job its first and only
\* stage-2 record; a turn on any other event adds no record
EntersStage2Once ==
  (pc = "loop" /\ pc' = "assign1") =>
    LET event == Head(eventQueue)
    IN IF event.type = "STAGE1_COMPLETE"
         THEN /\ state'.currentTime =
                   state.completedJobs[FindStage1Job(state, event.jobId)].endTime
              /\ Stage2RecordsOf(state, event.jobId) = {}
              /\ Cardinality(Stage2RecordsOf(state', event.jobId)) = 1
              /\ Len(state'.completedJobs) = Len(state.completedJobs) + 1
              /\ state'.stage2Queue = <<>>
         ELSE state'.completedJobs = state.completedJobs

\* C22: stage 2 serves jobs in FIFO order of their stage-1 completion: a job
\* enters the stage-2 queue exactly once, when its stage-1-completion event is
\* processed (clock = its stage-1 endTime); if job a ends stage 1 before job b,
\* a's stage-2 record is created before b's and its setup starts no later.
C22_Stage2FifoByStage1Completion ==
  []Stage2InCompletionOrder /\ [][EntersStage2Once]_vars

\* a returned Schedule in which a job later in the sequence ended stage 1
\* earlier and so has the earlier stage-2 record
C22_Witness ==
  /\ pc = "done"
  /\ \E ia, ib \in ScheduledOf(state.completedJobs, 1) :
     \E ka, kb \in ScheduledOf(state.completedJobs, 2) :
       /\ ib < ia
       /\ state.completedJobs[ia].endTime < state.completedJobs[ib].endTime
       /\ state.completedJobs[ka].jobId = state.completedJobs[ia].jobId
       /\ state.completedJobs[kb].jobId = state.completedJobs[ib].jobId
       /\ ka < kb
       /\ state.completedJobs[ka].setupStartTime < state.completedJobs[kb].setupStartTime

----------------------------------------------------------------------------
(* Kit binding and queue progress *)

\* within a run a kit that is bound to a machine stays bound to that machine
KitStaysBound ==
  pc \in {"assign1", "loop"} =>
    \A f \in DOMAIN state.setupKits :
      state.setupKits[f].currentMachine # null
        => state'.setupKits[f].currentMachine = state.setupKits[f].currentMachine

\* an assigning step never finds the kit on another machine than the chosen
\* one: the branch that clears the previous holder's currentSetupKit is not taken
NoKitCleared ==
  AssignsStage1 =>
    LET sj == state'.completedJobs[Len(state'.completedJobs)]
    IN /\ state.setupKits[sj.family].currentMachine \in {null, sj.machineId}
       /\ state'.setupKits[sj.family].currentMachine = sj.machineId
       /\ \A k \in DOMAIN state.machines :
            (k # sj.machineId)
              => state'.machines[k].currentSetupKit = state.machines[k].currentSetupKit

OneMachinePerFamily ==
  \A i, k \in ScheduledOf(state.completedJobs, 1) :
    state.completedJobs[i].family = state.completedJobs[k].family
      => state.completedJobs[i].machineId = state.completedJobs[k].machineId

Stage1HeadAssignable ==
  (pc = "assign1" /\ Len(state.stage1Queue) > 0)
    => /\ AssignStage1Head(jobs, state, eventQueue).assigned
       /\ \E k \in DOMAIN state.machines :
            /\ state.machines[k].stage = 1
            /\ Stage1Setup(state.machines[k],
                           state.setupKits[GetJob(jobs, state.stage1Queue[1]).family],
                           GetJob(jobs, state.stage1Queue[1])).feasible

\* the initial call of tryAssignStage1Jobs assigns every job at clock 0: the
\* stage-1 queue is empty whenever the event loop is at its head, and all
\* stage-1 records exist before the first event is processed
Stage1QueueEmptyInLoop ==
  /\ pc \in {"loop", "done"} => state.stage1Queue = <<>>
  /\ (pc = "assign1" /\ Len(state.stage1Queue) > 0)
       => (iterations = 0 /\ state.currentTime = 0)
  /\ (pc = "loop" /\ iterations = 0)
       => /\ state.currentTime = 0
          /\ Len(state.completedJobs) = Len(jobs)
          /\ Len(eventQueue) = Len(jobs)
          /\ \A i \in DOMAIN state.completedJobs : state.completedJobs[i].stage = 1

\* processEvent leaves the stage-2 queue empty
Stage2QueueEmpty == state.stage2Queue = <<>>

\* C24: for a permutation of the job ids the stage-1 queue never blocks: some
\* stage-1 machine is feasible for every queue head, the initial assignment
\* call at clock 0 assigns every job, the stage-1 queue is empty before the
\* first event is processed, and the stage-2 queue is empty after every
\* processed event.
C24_QueuesNeverBlock ==
  Stage1HeadAssignable /\ Stage1QueueEmptyInLoop /\ Stage2QueueEmpty

\* the six-job run stands before its first event: all six jobs have their
\* stage-1 record at clock 0, the one of job 6 on a machine that has another
\* family mounted
C24_Witness ==
  /\ pc = "loop"
  /\ iterations = 0
  /\ Len(jobs) = 6
  /\ state.stage1Queue = <<>>
  /\ Len(state.completedJobs) = 6
  /\ state.completedJobs[6].setupType = "major"
  /\ state.completedJobs[6].machineId = state.completedJobs[5].machineId

----------------------------------------------------------------------------
(* Machine occupancy *)

\* the indices of the records assigned to the machine of id mid
RecordsOn(cj, mid) == { i \in DOMAIN cj : cj[i].machineId = mid }

\* the last record assigned to that machine (the set is not empty)
LastOn(cj, mid) ==
  LET on == RecordsOn(cj, mid) IN CHOOSE i \in on : \A k \in on : k <= i

\* the intervals [setupStartTime, endTime) on every machine are pairwise disjoint
NoMachineOverlap(cj) ==
  \A i, k \in DOMAIN cj :
    (i # k /\ cj[i].machineId = cj[k].machineId) => Disjoint(cj[i], cj[k])

\* availableAt of every machine is the endTime of the last job assigned to it
AvailableAtIsLastEnd ==
  \A m \in DOMAIN state.machines :
    LET on == RecordsOn(state.completedJobs, state.machines[m].id)
    IN state.machines[m].availableAt =
         (IF on = {} THEN 0
          ELSE state.completedJobs[LastOn(state.completedJobs, state.machines[m].id)].endTime)

\* C25: on each machine of either stage the occupied intervals
\* [setupStartTime, endTime) of the ScheduledJobs assigned to it are pairwise
\* disjoint, in the returned Schedule and at every point of the run, and a
\* machine's availableAt equals the endTime of the last job assigned to it
\* (0 if none).
C25_MachineIntervalsDisjoint ==
  /\ NoMachineOverlap(state.completedJobs)
  /\ AvailableAtIsLastEnd
  /\ pc = "done" => NoMachineOverlap(schedule.jobs)

\* the six-job run has returned: a stage-2 machine took a second job right
\* when its first ended, a stage-1 machine ran three jobs, and a stage-2
\* machine stayed unused until the run ended with availableAt of one job
C25_Witness ==
  /\ pc = "done"
  /\ Len(jobs) = 6
  /\ Cardinality(RecordsOn(schedule.jobs, 1)) = 3
  /\ \E m \in DOMAIN state.machines :
       /\ state.machines[m].stage = 2
       /\ \E i, k \in RecordsOn(schedule.jobs, state.machines[m].id) :
            /\ i < k
            /\ schedule.jobs[k].setupStartTime = schedule.jobs[i].endTime
            /\ state.machines[m].availableAt = schedule.jobs[k].endTime

----------------------------------------------------------------------------
(* The result of a completed run against everything the run scored *)

\* C26: when runGA completes, the returned best individual has a fitness less
\* than or equal to that of every individual scored during the run, the
\* offspring created in the last generation (the final population) included.
C26_ResultIsBestScored ==
  \A i \in CompleteIdx :
    \A k \in DOMAIN population :
      outbox[i].result.bestIndividual.fitness <= population[k].fitness

----------------------------------------------------------------------------
(* Elitism *)

\* max(1, ceil(populationSize * elitismRate)), the rate in hundredths
CeilEliteCount(config) ==
  Max2(1, (config.populationSize * config.elitismRate + 99) \div 100)

\* C29: in every generation the next population starts with the top
\* ceil(populationSize * elitismRate) individuals (at least 1) of the
\* fitness-sorted current population, carried over unchanged, and the next
\* population has exactly populationSize individuals.
C29_ElitesCarriedOver ==
  /\ wpc = "offspring" =>
       /\ population = SortByFitness(population)
       /\ Len(newPopulation) >= CeilEliteCount(run.config)
       /\ SubSeq(newPopulation, 1, CeilEliteCount(run.config)) =
            SubSeq(population, 1, CeilEliteCount(run.config))
  /\ (Started /\ wpc = "generation" /\ generation > 0)
       => Len(population) = run.config.populationSize

----------------------------------------------------------------------------
(* Properties of the genetic operators *)

\* the array a read cyclically from the 0-based index from on
Rotated(a, from) == [k \in 1..Len(a) |-> At(a, (from + k - 1) % Len(a))]

\* C27: orderCrossover(p1, p2), for p1 and p2 permutations of the same
\* non-empty id set, terminates for every segment [start, end] and returns a
\* permutation of that set in which positions start..end hold p1's genes at
\* those positions and the remaining positions, taken cyclically from end+1,
\* hold the genes of p2 not in the segment in the cyclic order in which they
\* appear in p2 from position end+1; p1 and p2 are not modified.
C27_OrderCrossover ==
  call.operator = "orderCrossover" =>
    LET parent1 == call.args[1]
        parent2 == call.args[2]
        start == call.args[3]
        end == call.args[4]
        child == call.returned
        size == Len(parent1)
        segment == { At(parent1, k) : k \in start..end }
        rest == size - (end - start + 1)
    IN /\ call.turns <= size
       /\ Len(child) = size
       /\ Range(child) = Range(parent1)
       /\ \A k \in start..end : At(child, k) = At(parent1, k)
       /\ SubSeq(Rotated(child, end + 1), 1, rest) =
            SelectSeq(Rotated(parent2, end + 1), LAMBDA g : g \notin segment)
       /\ call.argsAfter = <<parent1, parent2>>

\* a crossover of two different permutations of three ids with a one-gene
\* segment in the middle: the fill wraps around and the child is neither parent
C27_Witness ==
  /\ call.operator = "orderCrossover"
  /\ Len(call.returned) = 3
  /\ call.args[3] = 1
  /\ call.args[4] = 1
  /\ call.returned # call.args[1]
  /\ call.returned # call.args[2]
  /\ call.turns = 3

\* a and b hold the same ids the same number of times
SameMultiset(a, b) ==
  \A g \in Range(a) \cup Range(b) :
    Cardinality({ k \in DOMAIN a : a[k] = g }) = Cardinality({ k \in DOMAIN b : b[k] = g })

\* C28: swapMutation and insertMutation, applied to any chromosome and for
\* every pair of random positions, return a new array of the same length and
\* the same multiset of job ids as the input and leave the input unmodified.
C28_MutationKeepsMultiset ==
  call.operator \in {"swapMutation", "insertMutation"} =>
    /\ Len(call.returned) = Len(call.args[1])
    /\ SameMultiset(call.returned, call.args[1])
    /\ call.argsAfter = <<call.args[1]>>

\* C30: insert mutation applied to a chromosome of length at least 2 removes
\* one gene and reinserts it at a position different from its original one,
\* so the mutated chromosome differs from the input.
C30_InsertMutationMovesGene ==
  (call.operator = "insertMutation" /\ Len(call.args[1]) >= 2) =>
    /\ call.args[2] # call.args[3]
    /\ call.returned # call.args[1]

----------------------------------------------------------------------------
(* Kit-side and machine-side bindings *)

\* C33: at every state of a run, for every family f and every stage-1 machine
\* m, the kit of f has currentMachine = m if and only if m has
\* currentSetupKit = f.
C33_BindingsAgree ==
  \A f \in DOMAIN state.setupKits : \A i \in Stage1Idx(state) :
    (state.setupKits[f].currentMachine = state.machines[i].id)
      <=> (state.machines[i].currentSetupKit = f)

----------------------------------------------------------------------------
(* The metrics of a Schedule *)

\* the tardiness of the stage-2 records among the first n records, summed
RECURSIVE Stage2TardinessUpTo(_, _)
Stage2TardinessUpTo(cj, n) ==
  IF n = 0 THEN 0
  ELSE (IF cj[n].stage = 2 THEN cj[n].tardiness ELSE 0) + Stage2TardinessUpTo(cj, n - 1)

\* C37: in a produced Schedule totalTardiness is the sum of tardiness over the
\* stage-2 ScheduledJobs only, averageTardiness is totalTardiness divided by
\* the number of stage-2 ScheduledJobs (0 when there are none),
\* minorSetupCount + majorSetupCount is the number of stage-1 records and
\* aoiSetupCount the number of stage-2 records.
C37_ScheduleMetrics ==
  pc = "done" =>
    LET n1 == Cardinality(ScheduledOf(schedule.jobs, 1))
        n2 == Cardinality(ScheduledOf(schedule.jobs, 2))
    IN /\ schedule.totalTardiness = Stage2TardinessUpTo(schedule.jobs, Len(schedule.jobs))
       /\ schedule.averageTardiness =
            (IF n2 = 0 THEN <<0, 1>> ELSE <<schedule.totalTardiness, n2>>)
       /\ schedule.minorSetupCount + schedule.majorSetupCount = n1
       /\ schedule.aoiSetupCount = n2
       /\ n1 + n2 = Len(schedule.jobs)

\* a returned Schedule of three jobs with a late and a punctual job and with
\* minor and major setups
C37_Witness ==
  /\ pc = "done"
  /\ schedule.totalTardiness > 0
  /\ schedule.averageTardiness = <<schedule.totalTardiness, 3>>
  /\ schedule.minorSetupCount = 1
  /\ schedule.majorSetupCount = 2
  /\ schedule.aoiSetupCount = 3
  /\ \E i \in ScheduledOf(schedule.jobs, 2) : schedule.jobs[i].tardiness = 0

----------------------------------------------------------------------------
(* The simulation clock *)

\* every pending event lies at or after the clock, and the queue is in time order
QueueAheadOfClock ==
  /\ \A i \in DOMAIN eventQueue : eventQueue[i].time >= state.currentTime
  /\ \A i, k \in DOMAIN eventQueue : i < k => eventQueue[i].time <= eventQueue[k].time

\* a turn of the event loop sets the clock to the time of the popped event,
\* which is not before the clock so far; assigning stage-1 jobs leaves the clock
ClockNeverBackwards ==
  /\ (pc = "loop" /\ pc' = "assign1")
       => /\ state'.currentTime = Head(eventQueue).time
          /\ state'.currentTime >= state.currentTime
  /\ pc = "assign1" => state'.currentTime = state.currentTime

\* C38: during runSimulation the clock never moves backwards: the times of
\* successively processed events are non-decreasing, and every event is pushed
\* with a time greater than or equal to the clock at the moment it is pushed.
C38_ClockMonotone == []QueueAheadOfClock /\ [][ClockNeverBackwards]_vars

\* the clock has advanced over several events and a later event is pending
C38_Witness ==
  /\ pc = "loop"
  /\ iterations >= 3
  /\ state.currentTime > 0
  /\ eventQueue # <<>>
  /\ Head(eventQueue).time > state.currentTime
  /\ Head(eventQueue).type = "STAGE1_COMPLETE"

----------------------------------------------------------------------------
(* The arguments of runSimulation *)

\* no step of a running call changes the jobs array, a Job record or the
\* jobSequence array
ArgumentsUntouched ==
  pc \in {"assign1", "loop"} => (jobs' = jobs /\ jobSequence' = jobSequence)

\* the call has consumed its own queue, not the argument
ArgumentWholeAtReturn ==
  pc = "done" =>
    /\ state.stage1Queue = <<>>
    /\ IsPermutationOfJobIds(jobSequence, jobs)

----------------------------------------------------------------------------
(* Runs of the worker with adaptive parameter control switched on or off *)

MaxAdaptiveGenerations == 2    \* config.generations of these runs: 1..MaxAdaptiveGenerations

\* GA_DEFAULTS with generations, mutationRate, useAdaptive and adaptiveWindow
\* replaced and a population of two; mutationRate is a float of [0, 1]
AdaptiveConfigs ==
  { [ populationSize |-> 2, generations |-> g, tournamentSize |-> 2,
      crossoverRate |-> 80, mutationRate |-> m, mutationMethod |-> "swap",
      elitismRate |-> 10, tardinessWeight |-> 0,
      useAdaptive |-> a, adaptiveWindow |-> aw ] :
    g \in 1..MaxAdaptiveGenerations, m \in {0, 20, 80}, a \in BOOLEAN, aw \in {2, 10} }

\* worker.postMessage({ type: 'START', jobs, config }) with such a configuration
PostStartAdaptive ==
  /\ ~posted.start
  /\ \E config \in AdaptiveConfigs :
       inbox' = Append(inbox, [ type |-> "START", jobs |-> TwoJobs, config |-> config,
                                hasInitial |-> FALSE, initialSequence |-> <<>> ])
  /\ posted' = [posted EXCEPT !.start = TRUE]
  /\ UNCHANGED <<outbox, cancelRequested, wpc, run, population, newPopulation,
                 bestEver, fitnessHistory, generation, adaptedMutationRate,
                 simVars, queueVars, opVars, pageVars>>

NextAdaptive ==
  \/ PostStartAdaptive
  \/ HandleStart
  \/ BeginGeneration
  \/ MakeOffspring
  \/ EndGeneration
  \/ Complete

SpecAdaptive == Init /\ [][NextAdaptive]_vars

\* lo <= q <= hi for quotients
QBetween(lo, q, hi) == ~QLess(q, lo) /\ ~QLess(hi, q)

\* C31: while the offspring of a generation are produced, the mutation rate
\* applied to them lies in [0.01, 0.5] when useAdaptive is enabled (generation
\* 0 included) and is exactly config.mutationRate when it is disabled.
C31_AppliedMutationRate ==
  wpc = "offspring" =>
    IF run.config.useAdaptive
      THEN QBetween(<<1, 100>>, adaptedMutationRate, <<1, 2>>)
      ELSE adaptedMutationRate = Q(run.config.mutationRate, 100)

\* the same with generation 0 left out of the adaptive case
AdaptedRateAfterGeneration0 ==
  (wpc = "offspring" /\ generation > 0) =>
    IF run.config.useAdaptive
      THEN QBetween(<<1, 100>>, adaptedMutationRate, <<1, 2>>)
      ELSE adaptedMutationRate = Q(run.config.mutationRate, 100)

\* a later generation whose rate the clamp changed
AdaptedRateClamped ==
  /\ wpc = "offspring" /\ generation > 0 /\ run.config.useAdaptive
  /\ adaptedMutationRate \in {<<1, 100>>, <<1, 2>>}

----------------------------------------------------------------------------
(* Progress reports of a completed run *)

\* the message last posted is the progress report of the current generation
\* and carries the best-ever individual, which no individual of the sorted
\* population beats
ProgressCarriesBestEver ==
  wpc = "offspring" =>
    /\ outbox # <<>>
    /\ outbox[Len(outbox)] =
         [ type |-> "PROGRESS", generation |-> generation,
           bestFitness |-> bestEver.fitness, bestMakespan |-> bestEver.makespan,
           bestTardiness |-> bestEver.totalTardiness,
           bestSequence |-> bestEver.chromosome ]
    /\ \A i \in DOMAIN population : bestEver.fitness <= population[i].fitness

\* the messages of a completed run: G progress reports numbered 0..G-1 in
\* ascending order, then the result with generationsRun = G and G history entries
CompletedRunReports ==
  \A c \in CompleteIdx :
    LET G == run.config.generations
    IN /\ c = G + 1
       /\ Len(outbox) = G + 1
       /\ \A i \in 1..G : outbox[i].type = "PROGRESS" /\ outbox[i].generation = i - 1
       /\ outbox[c].result.generationsRun = G
       /\ Len(outbox[c].result.fitnessHistory) = G

\* C32: a run of runGA that completes with config.generations = G reports
\* progress exactly G times, once per generation with indices 0..G-1 in
\* ascending order, each report carrying the best-ever fitness, makespan,
\* tardiness and chromosome at that point; the result has generationsRun = G
\* and a fitnessHistory of exactly G entries.
C32_ProgressOncePerGeneration ==
  ProgressCarriesBestEver /\ CompletedRunReports

\* a completed run of two generations or more whose reports differ
C32_Witness ==
  \E c \in CompleteIdx :
    /\ run.config.generations >= 2
    /\ outbox[1].bestFitness > outbox[2].bestFitness
    /\ outbox[c].result.generationsRun = Len(outbox[c].result.fitnessHistory)

----------------------------------------------------------------------------
(* The fitness history against the progress reports *)

\* the history entry of a generation is the bestFitness of its progress report
HistoryIsReportedBest ==
  \A i \in ProgressIdx :
    /\ outbox[i].generation + 1 \in DOMAIN fitnessHistory
    /\ fitnessHistory[outbox[i].generation + 1] = outbox[i].bestFitness

HistoryNonIncreasing ==
  \A g \in DOMAIN fitnessHistory :
    g > 1 => fitnessHistory[g] <= fitnessHistory[g - 1]

\* C36: in every generation g the best fitness of the sorted population, the
\* value appended to fitnessHistory, equals the best-ever fitness of the
\* PROGRESS message of generation g; hence fitnessHistory is non-increasing.
C36_HistoryEqualsBestEver ==
  HistoryIsReportedBest /\ HistoryNonIncreasing

\* a second generation whose offspring beat the elite of the first
C36_Witness ==
  /\ Len(fitnessHistory) >= 2
  /\ fitnessHistory[2] < fitnessHistory[1]
  /\ \E i \in ProgressIdx :
       outbox[i].generation = 1 /\ outbox[i].bestFitness = fitnessHistory[2]

----------------------------------------------------------------------------
(* A worker that is sent CANCEL while it is idle and START more than once *)

MaxStarts == 2    \* START messages posted to one worker

\* GA_DEFAULTS with populationSize and tournamentSize replaced and one
\* generation; a populationSize of 0 and a tournamentSize of -1 make runGA throw
StaleCancelConfigs ==
  { [ populationSize |-> p, generations |-> 1, tournamentSize |-> t,
      crossoverRate |-> 80, mutationRate |-> 20, mutationMethod |-> "swap",
      elitismRate |-> 10, tardinessWeight |-> 0,
      useAdaptive |-> FALSE, adaptiveWindow |-> 10 ] :
    p \in {0, 2}, t \in {-1, 2} }

ThrowsTypeError(config) == config.populationSize = 0 \/ config.tournamentSize <= 0

TerminalCount == Cardinality({ i \in DOMAIN outbox : Terminal(outbox[i]) })

Pending(type) == { i \in DOMAIN inbox : inbox[i].type = type }

\* START messages posted so far: answered, running or waiting
StartsPosted ==
  TerminalCount + Cardinality(Pending("START")) + (IF wpc = "idle" THEN 0 ELSE 1)

\* postMessage({ type: 'CANCEL' }) to a worker that runs nothing and has no
\* START waiting, while a START is still to come
PostStaleCancel ==
  /\ wpc = "idle"
  /\ Pending("START") = {}
  /\ Pending("CANCEL") = {}
  /\ StartsPosted < MaxStarts
  /\ inbox' = Append(inbox, [type |-> "CANCEL"])
  /\ posted' = [posted EXCEPT !.cancel = TRUE]
  /\ UNCHANGED <<outbox, cancelRequested, wpc, run, population, newPopulation,
                 bestEver, fitnessHistory, generation, adaptedMutationRate,
                 simVars, queueVars, opVars, pageVars>>

\* postMessage({ type: 'START', jobs, config }), for the first time or again
PostStartAgain ==
  /\ StartsPosted < MaxStarts
  /\ \E config \in StaleCancelConfigs :
       inbox' = Append(inbox, [ type |-> "START", jobs |-> TwoJobs, config |-> config,
                                hasInitial |-> FALSE, initialSequence |-> <<>> ])
  /\ posted' = [posted EXCEPT !.start = TRUE]
  /\ UNCHANGED <<outbox, cancelRequested, wpc, run, population, newPopulation,
                 bestEver, fitnessHistory, generation, adaptedMutationRate,
                 simVars, queueVars, opVars, pageVars>>

NextStaleCancel ==
  \/ PostStaleCancel
  \/ PostStartAgain
  \/ HandleCancel
  \/ HandleStart
  \/ BeginGeneration
  \/ MakeOffspring
  \/ EndGeneration
  \/ Complete

SpecStaleCancel == Init /\ [][NextStaleCancel]_vars

\* the flag is clear throughout a run, no run is answered with the
\* cancellation error, and the run last handled ended with COMPLETE unless
\* its configuration made runGA throw
StaleCancelNeverAborts ==
  /\ wpc # "idle" => ~cancelRequested
  /\ \A i \in DOMAIN outbox :
       outbox[i].type = "ERROR" => outbox[i].error # "Optimization cancelled"
  /\ (wpc = "idle" /\ Started) =>
       /\ outbox # <<>>
       /\ Terminal(outbox[Len(outbox)])
       /\ ~ThrowsTypeError(run.config) => outbox[Len(outbox)].type = "COMPLETE"

\* handling a CANCEL posts nothing
CancelAlonePostsNothing ==
  (inbox # <<>> /\ Head(inbox).type = "CANCEL" /\ inbox' = Tail(inbox)) =>
    (outbox' = outbox /\ cancelRequested')

\* C35: a CANCEL handled while no run is in progress never aborts a later run:
\* every START clears the cancel flag before running, a CANCEL alone makes the
\* worker post no message, and a run started after a stale CANCEL ends with
\* COMPLETE.
C35_StaleCancelHarmless ==
  []StaleCancelNeverAborts /\ [][CancelAlonePostsNothing]_vars

\* every START was answered, the last one with COMPLETE, and a CANCEL had been
\* handled before it was posted
C35_Witness ==
  /\ posted.cancel
  /\ inbox = <<>>
  /\ wpc = "idle"
  /\ TerminalCount = MaxStarts
  /\ outbox[Len(outbox)].type = "COMPLETE"

----------------------------------------------------------------------------
(* The page and its GA workers: handleOptimizeWithConfig,                     *)
(* handleCancelOptimization and the onmessage handler the page gives each     *)
(* worker.  A worker is seen from the page: it takes its START, posts         *)
(* PROGRESS messages and one COMPLETE or ERROR; of a message only the fields  *)
(* the handler stores are kept.                                               *)

MaxWorkers == 3            \* Workers the page constructs
MaxWorkerGenerations == 2  \* PROGRESS messages one worker posts

\* worker.terminate() that leaves the messages already posted to the page
TerminateKeepsPort(worker) ==
  [worker EXCEPT !.status = "terminated", !.inbox = <<>>]

\* worker.terminate(): the script is aborted, the tasks of the worker are
\* discarded and the message queue of the page's port is emptied
Terminate(worker) ==
  [worker EXCEPT !.status = "terminated", !.inbox = <<>>, !.port = <<>>]

\* new Worker(...)
NewWorker == [status |-> "loaded", inbox |-> <<>>, port |-> <<>>, generation |-> 0]

PostTo(worker, message) == [worker EXCEPT !.inbox = Append(@, message)]

handleOptimizeWithConfig ==
  /\ Len(workers) < MaxWorkers
  /\ LET old == IF workerRef # 0
                  THEN [workers EXCEPT ![workerRef] = Terminate(@)]
                  ELSE workers
         message == [type |-> "START", initialSequence |-> pageJobSequence]
     IN workers' = Append(old, PostTo(NewWorker, message))
  /\ workerRef' = Len(workers) + 1
  /\ isOptimizing' = TRUE
  /\ UNCHANGED <<optimizationProgress, pageJobSequence, pageError,
                 simVars, gaVars, queueVars, opVars>>

handleCancelOptimization ==
  /\ IF workerRef # 0
       THEN /\ workers' = [workers EXCEPT
                             ![workerRef] = Terminate(PostTo(@, [type |-> "CANCEL"]))]
            /\ workerRef' = 0
       ELSE UNCHANGED <<workers, workerRef>>
  /\ isOptimizing' = FALSE
  /\ optimizationProgress' = <<>>
  /\ UNCHANGED <<pageJobSequence, pageError, simVars, gaVars, queueVars, opVars>>

\* the worker's self.onmessage takes the START of its inbox
WorkerTakesStart(w) ==
  /\ workers[w].status = "loaded"
  /\ workers[w].inbox # <<>>
  /\ workers' = [workers EXCEPT ![w].status = "running", ![w].inbox = Tail(@)]
  /\ UNCHANGED <<workerRef, isOptimizing, optimizationProgress, pageJobSequence,
                 pageError, simVars, gaVars, queueVars, opVars>>

\* runGA's progress report of one generation
WorkerPostsProgress(w) ==
  /\ workers[w].status = "running"
  /\ workers[w].generation < MaxWorkerGenerations
  /\ \E seq \in PermSeqs({1, 2}) :
       workers' = [workers EXCEPT
                     ![w].port = Append(@, [ type |-> "PROGRESS",
                                             generation |-> workers[w].generation,
                                             bestSequence |-> seq ]),
                     ![w].generation = @ + 1]
  /\ UNCHANGED <<workerRef, isOptimizing, optimizationProgress, pageJobSequence,
                 pageError, simVars, gaVars, queueVars, opVars>>

\* the end of the START branch: COMPLETE with the result, or ERROR
WorkerPostsTerminal(w) ==
  /\ workers[w].status = "running"
  /\ \E m \in { [type |-> "COMPLETE", generation |-> workers[w].generation,
                 bestSequence |-> seq] : seq \in PermSeqs({1, 2}) }
             \cup { [type |-> "ERROR", generation |-> workers[w].generation,
                     bestSequence |-> <<>>] } :
       workers' = [workers EXCEPT ![w].port = Append(@, m), ![w].status = "idle"]
  /\ UNCHANGED <<workerRef, isOptimizing, optimizationProgress, pageJobSequence,
                 pageError, simVars, gaVars, queueVars, opVars>>

\* workerRef.current.onmessage, called with the oldest message of the port
PageOnMessage(w) ==
  /\ workers[w].port # <<>>
  /\ LET response == Head(workers[w].port)
     IN /\ workers' = [workers EXCEPT ![w].port = Tail(@)]
        /\ CASE response.type = "PROGRESS" ->
                  /\ optimizationProgress' =
                       <<[generation |-> response.generation, total |-> 500]>>
                  /\ pageJobSequence' = response.bestSequence
                  /\ UNCHANGED <<isOptimizing, pageError>>
             [] response.type = "COMPLETE" ->
                  /\ isOptimizing' = FALSE
                  /\ optimizationProgress' = <<>>
                  /\ pageJobSequence' = response.bestSequence
                  /\ UNCHANGED pageError
             [] response.type = "ERROR" ->
                  /\ isOptimizing' = FALSE
                  /\ optimizationProgress' = <<>>
                  /\ pageError' = <<"Optimization failed">>
                  /\ UNCHANGED pageJobSequence
  /\ UNCHANGED <<workerRef, simVars, gaVars, queueVars, opVars>>

NextPage ==
  \/ handleOptimizeWithConfig
  \/ handleCancelOptimization
  \/ \E w \in DOMAIN workers : WorkerTakesStart(w)
  \/ \E w \in DOMAIN workers : WorkerPostsProgress(w)
  \/ \E w \in DOMAIN workers : WorkerPostsTerminal(w)
  \/ \E w \in DOMAIN workers : PageOnMessage(w)

SpecPage == Init /\ [][NextPage]_vars

LiveWorkers == { w \in DOMAIN workers : workers[w].status # "terminated" }

\* the only live worker is the one workerRef refers to
AtMostOneLiveWorker ==
  /\ Cardinality(LiveWorkers) <= 1
  /\ LiveWorkers \subseteq {workerRef}
  /\ workerRef = 0 => (~isOptimizing /\ optimizationProgress = <<>>)

\* a step in which the page's handler was called with a message of worker w
HandedToPage(w) ==
  /\ Len(workers'[w].port) < Len(workers[w].port)
  /\ workers'[w].status = workers[w].status

\* while no worker is referenced (from a cancellation to the next start)
\* nothing changes the page's sequence, progress or isOptimizing; and a
\* message that changes them comes from the worker referenced
OnlyTheReferencedWorkerIsHeard ==
  /\ (workerRef = 0 /\ workerRef' = 0) =>
       UNCHANGED <<pageJobSequence, optimizationProgress, isOptimizing>>
  /\ \A w \in DOMAIN workers : HandedToPage(w) => w = workerRef

\* C34: after handleCancelOptimization no PROGRESS or COMPLETE message of the
\* cancelled run changes the page's job sequence, progress or isOptimizing;
\* and at every moment at most one GA worker is live.
C34_CancelledRunIsSilent ==
  []AtMostOneLiveWorker /\ [][OnlyTheReferencedWorkerIsHeard]_vars

\* a worker was cancelled with a PROGRESS message posted and not yet handled,
\* and a later worker is running
C34_Witness ==
  \E w \in DOMAIN workers :
    /\ workers[w].status = "terminated"
    /\ workers[w].generation > 0
    /\ workerRef > w
    /\ workers[workerRef].status = "running"
    /\ pageJobSequence = <<1, 2>>
    /\ optimizationProgress = <<>>

====
